---- MODULE Spec2Model ----
(***************************************************************************)
(* Model of the bps-seki agent: the SQL safety validator, the smart table  *)
(* selector and the LangGraph workflow (basic, enhanced, hybrid) that      *)
(* threads one AgentState through the nodes of src/nodes.py.               *)
(*                                                                         *)
(* SQL text is a sequence of one-character strings, so that prefix,        *)
(* substring and word-boundary tests are computed as the code's str and    *)
(* re calls compute them.  Messages are TLA+ strings.                      *)
(***************************************************************************)
EXTENDS Integers, Sequences, FiniteSets, TLC

VARIABLES
    sql,              \* validator run: the statement handed to validate_sql
    validation,       \* validator run: None, or Some(result of validate_sql)
    candidate_tables, \* selector run: the ranked candidates handed to the selector
    llm_reply,        \* selector run: what the language model answers if asked
    selection,        \* selector run: None, or Some(result of select_best_table)
    inj_sql,          \* injector run: the statement handed to inject_region_filter
    inj_column,       \* injector run: the access column
    inj_region,       \* injector run: the user's region
    inj_result,       \* injector run: None, or Some of the statement after one
                      \*   injection and after a second one
    rt_query,         \* retrieval run: the question handed to find_relevant_tables
    rt_top_k,         \* retrieval run: its top_k
    rt_order,         \* retrieval run: the catalog's tables, in load order
    rt_result,        \* retrieval run: None, or Some(what it returns)
    fc_df,            \* forecast run: the rows the forecast query returned
    fc_caller,        \* forecast run: who asks for the forecast
    fc_periods,       \* forecast run: the configured DEFAULT_FORECAST_PERIODS
    fc_result,        \* forecast run: None, or Some(what the forecast returns)
    wf,               \* workflow run: which compiled workflow runs
    pc,               \* workflow run: the node to run next, "END" or "raised"
    state,            \* workflow run: the AgentState
    table_order,      \* workflow run: the order the metadata files were loaded in
    fresh,            \* workflow run: whether the run started from a fresh state
    trace,            \* workflow run: the nodes that have run, in order
    events,           \* workflow run: the external requests made, in order
    md_store,         \* catalog loads: the metadata directory
    md_cache,         \* catalog loads: MetadataManager._metadata_cache
    md_loaded,        \* catalog loads: whether a call that read the store has returned
    md_calls,         \* catalog loads: each thread's call of load_all_metadata
    dt_columns,       \* column detection: the columns of the table's metadata
    dt_result         \* column detection: None, or Some(what the two paths choose)

vvars == <<sql, validation>>
svars == <<candidate_tables, llm_reply, selection>>
ivars == <<inj_sql, inj_column, inj_region, inj_result>>
wvars == <<wf, pc, state, table_order, fresh, trace, events>>
fvars == <<fc_df, fc_caller, fc_periods, fc_result>>
rvars == <<rt_query, rt_top_k, rt_order, rt_result>>
lvars == <<md_store, md_cache, md_loaded, md_calls>>
dvars == <<dt_columns, dt_result>>
vars == <<vvars, svars, ivars, rvars, fvars, lvars, dvars, wvars>>

(***************************************************************************)
(* Optional values: Python's None and a present value.                     *)
(***************************************************************************)
None == <<>>
Some(v) == <<v>>

(***************************************************************************)
(* Characters and strings                                                  *)
(***************************************************************************)
UPPER == <<"A","B","C","D","E","F","G","H","I","J","K","L","M",
           "N","O","P","Q","R","S","T","U","V","W","X","Y","Z">>
LOWER == <<"a","b","c","d","e","f","g","h","i","j","k","l","m",
           "n","o","p","q","r","s","t","u","v","w","x","y","z">>
DIGITS == {"0","1","2","3","4","5","6","7","8","9"}

Range(f) == {f[i] : i \in DOMAIN f}

\* str.lower() on one character
LowerChar(c) ==
    IF c \in Range(UPPER)
    THEN LOWER[CHOOSE i \in DOMAIN UPPER : UPPER[i] = c]
    ELSE c

\* str.lower()
Lower(s) == [i \in 1..Len(s) |-> LowerChar(s[i])]

\* \s of the re module, over the characters the model draws from
IsSpace(c) == c = " "

\* \w of the re module: letters, digits and the underscore
IsWordChar(c) == c \in Range(UPPER) \cup Range(LOWER) \cup DIGITS \cup {"_"}

\* str.strip()
Strip(s) ==
    LET idx == {i \in 1..Len(s) : ~IsSpace(s[i])}
    IN  IF idx = {} THEN <<>>
        ELSE SubSeq(s, CHOOSE i \in idx : \A j \in idx : i <= j,
                       CHOOSE i \in idx : \A j \in idx : i >= j)

\* str.startswith(p)
StartsWith(s, p) == Len(s) >= Len(p) /\ SubSeq(s, 1, Len(p)) = p

\* p occurs in s at position i
MatchAt(s, p, i) ==
    /\ i >= 1
    /\ i + Len(p) - 1 <= Len(s)
    /\ SubSeq(s, i, i + Len(p) - 1) = p

\* p in s
Contains(s, p) == \E i \in 1..Len(s) : MatchAt(s, p, i)

\* re.search(r'\bp\b', s): p occurs with a word boundary on both sides
\* (p begins and ends with a word character)
ContainsWord(s, p) ==
    \E i \in 1..Len(s) :
        /\ MatchAt(s, p, i)
        /\ (i = 1 \/ ~IsWordChar(s[i - 1]))
        /\ (i + Len(p) > Len(s) \/ ~IsWordChar(s[i + Len(p)]))

\* re.search(r'p.*q', s): the model's alphabet holds no newline
RegexThen(s, p, q) ==
    \E i \in 1..Len(s) : \E j \in 1..Len(s) :
        /\ MatchAt(s, p, i)
        /\ MatchAt(s, q, j)
        /\ j >= i + Len(p)

\* re.search(r'p\s*q', s)
RegexWsThen(s, p, q) ==
    \E i \in 1..Len(s) : \E j \in 1..Len(s) :
        /\ MatchAt(s, p, i)
        /\ MatchAt(s, q, j)
        /\ j >= i + Len(p)
        /\ \A k \in (i + Len(p))..(j - 1) : IsSpace(s[k])

\* "".join(cs): the text of a character sequence
RECURSIVE Join(_)
Join(cs) == IF cs = <<>> THEN "" ELSE cs[1] \o Join(Tail(cs))

S_select == <<"s","e","l","e","c","t">>
S_from == <<"f","r","o","m">>
S_union == <<"u","n","i","o","n">>
S_exec == <<"e","x","e","c">>
S_sp_ == <<"s","p","_">>
S_xp_ == <<"x","p","_">>
S_waitfor == <<"w","a","i","t","f","o","r">>
S_delay == <<"d","e","l","a","y">>
S_sleep == <<"s","l","e","e","p">>
S_benchmark == <<"b","e","n","c","h","m","a","r","k">>
S_pg_sleep == <<"p","g","_","s","l","e","e","p">>
S_dashes == <<"-","-">>
S_lparen == <<"(">>
S_semi == <<";">>

(***************************************************************************)
(* SQLValidator                                                            *)
(***************************************************************************)
FORBIDDEN_KEYWORDS == <<
    <<"d","r","o","p">>,
    <<"d","e","l","e","t","e">>,
    <<"u","p","d","a","t","e">>,
    <<"i","n","s","e","r","t">>,
    <<"a","l","t","e","r">>,
    <<"t","r","u","n","c","a","t","e">>,
    <<"c","r","e","a","t","e">>,
    <<"a","t","t","a","c","h">>,
    <<"d","e","t","a","c","h">>,
    <<"g","r","a","n","t">>,
    <<"r","e","v","o","k","e">>,
    <<"c","o","m","m","i","t">>,
    <<"r","o","l","l","b","a","c","k">>,
    <<"s","a","v","e","p","o","i","n","t">>,
    <<"e","x","e","c">>,
    <<"e","x","e","c","u","t","e">>,
    <<"s","p","_">>,
    <<"x","p","_">>,
    <<"s","h","u","t","d","o","w","n">> >>

\* any(re.search(pattern, sql_lower) for pattern in FORBIDDEN_PATTERNS)
FORBIDDEN_PATTERNS(s) ==
    \/ Contains(s, S_dashes)                        \* --.*$
    \/ RegexWsThen(s, S_semi, S_dashes)             \* ;\s*--
    \/ RegexThen(s, S_union, S_select)              \* union.*select
    \/ RegexThen(s, S_exec, S_lparen)               \* exec.*\(
    \/ Contains(s, S_sp_)                           \*   |sp_
    \/ Contains(s, S_xp_)                           \* xp_
    \/ RegexThen(s, S_waitfor, S_delay)             \* waitfor.*delay
    \/ RegexWsThen(s, S_sleep, S_lparen)            \*   |sleep\s*\(
    \/ RegexWsThen(s, S_benchmark, S_lparen)        \* benchmark\s*\(
    \/ Contains(s, S_pg_sleep)                      \*   |pg_sleep

(***************************************************************************)
(* len(sqlparse.parse(sql)): the statement splitter ends a statement at a  *)
(* ";" that is punctuation (outside a quoted literal) at parenthesis level *)
(* <= 0, the level being counted from the start of the statement; it lets  *)
(* the whitespace after the ";" belong to that statement, and yields what  *)
(* is pending at the end unless it is all whitespace.                      *)
(***************************************************************************)
\* position i is outside every quoted literal
Outside(s, i) == Cardinality({j \in 1..(i - 1) : s[j] = "'"}) % 2 = 0

Punct(s, i, c) == s[i] = c /\ Outside(s, i)

\* the parenthesis level after position i, counted from the start of the text
ParenLevel(s, i) ==
    Cardinality({j \in 1..i : Punct(s, j, "(")})
        - Cardinality({j \in 1..i : Punct(s, j, ")")})

\* the level is reset at each statement start, so a ";" is at level <= 0 of
\* its statement when it is no deeper than the text's start and than every
\* ";" before it
EndsStatement(s, i) ==
    /\ Punct(s, i, ";")
    /\ ParenLevel(s, i) <= 0
    /\ \A j \in 1..(i - 1) : Punct(s, j, ";") => ParenLevel(s, i) <= ParenLevel(s, j)

StatementCount(s) ==
    Cardinality({i \in 1..Len(s) : /\ EndsStatement(s, i)
                                   /\ \E j \in (i + 1)..Len(s) : ~IsSpace(s[j])})
        + (IF \E i \in 1..Len(s) : ~IsSpace(s[i]) THEN 1 ELSE 0)

\* validate_sql with the keyword test done by substring instead of \b...\b
validate_sql_substring(sql_in) ==
    LET sql_lower == Strip(Lower(sql_in))
        hits == {k \in DOMAIN FORBIDDEN_KEYWORDS :
                    Contains(sql_lower, FORBIDDEN_KEYWORDS[k])}
    IN  IF ~StartsWith(sql_lower, S_select)
        THEN [is_valid |-> FALSE, reason |-> "Only SELECT queries are allowed"]
        ELSE IF hits # {}
        THEN [is_valid |-> FALSE,
              reason |-> "Contains forbidden keyword: "
                  \o Join(FORBIDDEN_KEYWORDS[CHOOSE k \in hits : \A j \in hits : k <= j])]
        ELSE IF FORBIDDEN_PATTERNS(sql_lower)
        THEN [is_valid |-> FALSE, reason |-> "Contains dangerous SQL pattern"]
        ELSE IF ~Contains(sql_lower, S_from)
        THEN [is_valid |-> FALSE, reason |-> "Query missing FROM clause"]
        ELSE IF StatementCount(sql_in) > 1
        THEN [is_valid |-> FALSE, reason |-> "Multiple SQL statements detected"]
        ELSE [is_valid |-> TRUE, reason |-> "Query is safe"]

\* validate_sql that never counts the statements (no step 5)
validate_sql_no_statement_count(sql_in) ==
    LET sql_lower == Strip(Lower(sql_in))
        hits == {k \in DOMAIN FORBIDDEN_KEYWORDS :
                    ContainsWord(sql_lower, FORBIDDEN_KEYWORDS[k])}
    IN  IF ~StartsWith(sql_lower, S_select)
        THEN [is_valid |-> FALSE, reason |-> "Only SELECT queries are allowed"]
        ELSE IF hits # {}
        THEN [is_valid |-> FALSE,
              reason |-> "Contains forbidden keyword: "
                  \o Join(FORBIDDEN_KEYWORDS[CHOOSE k \in hits : \A j \in hits : k <= j])]
        ELSE IF FORBIDDEN_PATTERNS(sql_lower)
        THEN [is_valid |-> FALSE, reason |-> "Contains dangerous SQL pattern"]
        ELSE IF ~Contains(sql_lower, S_from)
        THEN [is_valid |-> FALSE, reason |-> "Query missing FROM clause"]
        ELSE [is_valid |-> TRUE, reason |-> "Query is safe"]

\* validate_sql that looks for the forbidden keywords before it looks at the
\* first word
validate_sql_keywords_first(sql_in) ==
    LET sql_lower == Strip(Lower(sql_in))
        hits == {k \in DOMAIN FORBIDDEN_KEYWORDS :
                    ContainsWord(sql_lower, FORBIDDEN_KEYWORDS[k])}
    IN  IF hits # {}
        THEN [is_valid |-> FALSE,
              reason |-> "Contains forbidden keyword: "
                  \o Join(FORBIDDEN_KEYWORDS[CHOOSE k \in hits : \A j \in hits : k <= j])]
        ELSE validate_sql_no_statement_count(sql_in)

\* SQLValidator.validate_sql
validate_sql(sql_in) ==
    LET sql_lower == Strip(Lower(sql_in))
        hits == {k \in DOMAIN FORBIDDEN_KEYWORDS :
                    ContainsWord(sql_lower, FORBIDDEN_KEYWORDS[k])}
    IN  IF ~StartsWith(sql_lower, S_select)
        THEN [is_valid |-> FALSE, reason |-> "Only SELECT queries are allowed"]
        ELSE IF hits # {}
        THEN [is_valid |-> FALSE,
              reason |-> "Contains forbidden keyword: "
                  \o Join(FORBIDDEN_KEYWORDS[CHOOSE k \in hits : \A j \in hits : k <= j])]
        ELSE IF FORBIDDEN_PATTERNS(sql_lower)
        THEN [is_valid |-> FALSE, reason |-> "Contains dangerous SQL pattern"]
        ELSE IF ~Contains(sql_lower, S_from)
        THEN [is_valid |-> FALSE, reason |-> "Query missing FROM clause"]
        ELSE IF StatementCount(sql_in) > 1
        THEN [is_valid |-> FALSE, reason |-> "Multiple SQL statements detected"]
        ELSE [is_valid |-> TRUE, reason |-> "Query is safe"]

(***************************************************************************)
(* Statements handed to the validator: a head, a column list, an optional  *)
(* FROM clause and a tail.                                                 *)
(***************************************************************************)
StmtHeads == {
    <<"s","e","l","e","c","t">>,
    <<"S","E","L","E","C","T">>,
    <<" "," ","S","e","L","e","C","t">>,
    <<"s","e","l","e","c","t","e","d">>,
    <<"D","R","O","P"," ","T","A","B","L","E">>,
    <<"u","p","d","a","t","e">>,
    <<"(","s","e","l","e","c","t">> }

StmtColumns == {
    <<"*">>,
    <<"u","p","d","a","t","e","_","t","s">>,
    <<"l","a","s","t","_","u","p","d","a","t","e","d">>,
    <<"c","r","e","a","t","e","d","_","a","t">>,
    <<"d","a","t","e","_","f","r","o","m">>,
    <<"a",","," ","u","p","d","a","t","e">>,
    <<"D","e","l","e","t","e">>,
    <<"a",".","d","r","o","p">>,
    <<"s","p","_","n","a","m","e">>,
    <<"x","p","_","c","m","d">>,
    <<"s","l","e","e","p"," ","(","1",")">>,
    <<"e","x","e","c","u","t","o","r","(","1",")">>,
    <<"e","x","e","c","_","i","d">> }

StmtFroms == {
    <<>>,
    <<" ","f","r","o","m"," ","t">>,
    <<" ","F","R","O","M"," ","t">> }

StmtTails == {
    <<>>,
    <<";">>,
    <<";"," "," ">>,
    <<";"," ","D","R","O","P"," ","T","A","B","L","E"," ","t",";">>,
    <<";"," ","s","e","l","e","c","t"," ","*"," ","f","r","o","m"," ","t">>,
    <<" ","-","-"," ","c">>,
    <<" ","u","n","i","o","n"," ","s","e","l","e","c","t"," ","1">>,
    <<" ","w","h","e","r","e"," ","c"," ","l","i","k","e"," ","'","a",";","b","'">>,
    <<" ","w","h","e","r","e"," ","(","a",";"," ","s","e","l","e","c","t"," ","1">>,
    <<" ","l","i","m","i","t"," ","5">> }

Statements ==
    {h \o <<" ">> \o c \o f \o t :
        h \in StmtHeads, c \in StmtColumns, f \in StmtFroms, t \in StmtTails}

(***************************************************************************)
(* The validator on its own: one call of validate_sql on any statement.    *)
(***************************************************************************)
(***************************************************************************)
(* The metadata catalog and the ranker's output.  A candidate is a table   *)
(* name with its relevance score; scores are counted in half points (the   *)
(* ranker adds 3, 2, 1 and 0.5), so 3 stands for 1.5.  The ranker returns  *)
(* tables with a positive score, highest first, each table once.           *)
(***************************************************************************)
Tables == {"inflasi", "pdb", "penduduk"}

MaxScore == 2
MaxCandidates == 3

Scores == 1..MaxScore

IsRanked(l) ==
    /\ \A i \in 1..Len(l) : \A j \in 1..Len(l) :
          i < j => /\ l[i].table_name # l[j].table_name
                   /\ l[i].relevance_score >= l[j].relevance_score

\* the lists find_relevant_tables(user_query, top_k) can return
RankedLists(top_k) ==
    LET Cand == [table_name : Tables, relevance_score : Scores]
        n == IF top_k < MaxCandidates THEN top_k ELSE MaxCandidates
    IN  UNION {{l \in [1..k -> Cand] : IsRanked(l)} : k \in 0..n}

(***************************************************************************)
(* SmartTableSelector.select_best_table                                    *)
(*                                                                         *)
(* Confidences are counted in tenths (3 stands for 0.3).  A JSON value is  *)
(* [t, v]: its type tag and, for numbers, its value.                       *)
(***************************************************************************)
JInt(k) == [t |-> "int", v |-> k]
JBool(b) == [t |-> "bool", v |-> IF b THEN 1 ELSE 0]
JFloat(k) == [t |-> "float", v |-> k]
JStr == [t |-> "str", v |-> 0]
JNull == [t |-> "null", v |-> 0]
JMissing == [t |-> "missing", v |-> 0]

\* a confidence the code itself writes: 0, 0.3, 0.5, 1.0
Conf(tenths) == [t |-> "float", v |-> tenths]

NoReply == [kind |-> "none", index |-> JMissing, confidence |-> JMissing]

\* what call_user_llm can come back with, for n candidates: a failed call,
\* text without a {...} span, a {...} span json.loads rejects, or a JSON
\* object whose selected_table_index and confidence are any JSON value
LLMReplies(n) ==
    IF n < 2 THEN {NoReply}
    ELSE {[kind |-> k, index |-> JMissing, confidence |-> JMissing] :
              k \in {"fail", "no_json", "bad_json"}}
         \cup
         [kind : {"json"},
          index : {JInt(k) : k \in 0..(n + 1)}
                      \cup {JBool(TRUE), JBool(FALSE), JFloat(1), JStr, JNull, JMissing},
          confidence : {Conf(2), Conf(3), Conf(9), JStr, JNull, JMissing}]

\* max(candidate_tables, key=lambda x: x.get("relevance_score", 0)): the
\* first candidate holding the highest score
MaxByScore(l) ==
    l[CHOOSE i \in 1..Len(l) :
          /\ \A j \in 1..Len(l) : l[j].relevance_score <= l[i].relevance_score
          /\ \A j \in 1..(i - 1) : l[j].relevance_score < l[i].relevance_score]

\* isinstance(idx, int) and 1 <= idx <= len(candidate_tables): a Python bool
\* is an int, True counting as 1 and False as 0
IndexAccepted(idx, n) == idx.t \in {"int", "bool"} /\ 1 <= idx.v /\ idx.v <= n

\* dict.get(key, default): the default only when the key is missing
JGet(val, default) == IF val.t = "missing" THEN default ELSE val

SelectorFallback(l) ==
    [selected |-> Some(MaxByScore(l)),
     confidence |-> Conf(3),
     reason |-> "Fallback due to error",
     llm_called |-> TRUE]

\* select_best_table that asks the language model for a single candidate too
select_best_table_always_asks(l, r) ==
    IF l = <<>>
    THEN [selected |-> None, confidence |-> JInt(0),
          reason |-> "No candidate tables", llm_called |-> FALSE]
    ELSE IF r.kind = "json" /\ IndexAccepted(r.index, Len(l))
    THEN [selected |-> Some(l[r.index.v]),
          confidence |-> JGet(r.confidence, Conf(5)),
          reason |-> "No reason", llm_called |-> TRUE]
    ELSE SelectorFallback(l)

\* select_best_table that reads the reply's index as 0-based
select_best_table_zero_based(l, r) ==
    IF l = <<>>
    THEN [selected |-> None, confidence |-> JInt(0),
          reason |-> "No candidate tables", llm_called |-> FALSE]
    ELSE IF Len(l) = 1
    THEN [selected |-> Some(l[1]), confidence |-> Conf(10),
          reason |-> "Only one candidate table available", llm_called |-> FALSE]
    ELSE IF r.kind = "json" /\ IndexAccepted(r.index, Len(l) - 1)
    THEN [selected |-> Some(l[r.index.v + 1]),
          confidence |-> JGet(r.confidence, Conf(5)),
          reason |-> "No reason", llm_called |-> TRUE]
    ELSE SelectorFallback(l)

\* llm_called: whether the call of line 97 is made; the replies carry no
\* reason of their own, so an accepted reply gives the default one
select_best_table(l, r) ==
    IF l = <<>>
    THEN [selected |-> None, confidence |-> JInt(0),
          reason |-> "No candidate tables", llm_called |-> FALSE]
    ELSE IF Len(l) = 1
    THEN [selected |-> Some(l[1]), confidence |-> Conf(10),
          reason |-> "Only one candidate table available", llm_called |-> FALSE]
    ELSE IF r.kind = "json" /\ IndexAccepted(r.index, Len(l))
    THEN [selected |-> Some(l[r.index.v]),
          confidence |-> JGet(r.confidence, Conf(5)),
          reason |-> "No reason", llm_called |-> TRUE]
    ELSE SelectorFallback(l)

(***************************************************************************)
(* More of str: find, replace, rstrip, split, isdigit, int                 *)
(***************************************************************************)
\* s.find(p), 1-based; 0 when p does not occur
Find(s, p) ==
    IF Contains(s, p)
    THEN CHOOSE i \in 1..Len(s) : MatchAt(s, p, i) /\ \A j \in 1..(i - 1) : ~MatchAt(s, p, j)
    ELSE 0

\* s.replace(p, ""): every occurrence, left to right
RECURSIVE Remove(_, _)
Remove(s, p) ==
    IF ~Contains(s, p) THEN s
    ELSE LET i == Find(s, p)
         IN  SubSeq(s, 1, i - 1) \o Remove(SubSeq(s, i + Len(p), Len(s)), p)

\* s.rstrip(";")
RECURSIVE RStripSemi(_)
RStripSemi(s) ==
    IF s # <<>> /\ s[Len(s)] = ";" THEN RStripSemi(SubSeq(s, 1, Len(s) - 1)) ELSE s

\* set(s.split()): the maximal runs of non-space characters
Words(s) ==
    {SubSeq(s, p[1], p[2]) :
        p \in {q \in (1..Len(s)) \X (1..Len(s)) :
                 /\ q[1] <= q[2]
                 /\ \A k \in q[1]..q[2] : ~IsSpace(s[k])
                 /\ (q[1] = 1 \/ IsSpace(s[q[1] - 1]))
                 /\ (q[2] = Len(s) \/ IsSpace(s[q[2] + 1]))}}

\* characters str.isdigit accepts and int() does not read: the superscript
\* two stands for the digits that are no decimal digits
NON_DECIMAL_DIGITS == {"SUPERSCRIPT TWO"}

\* s.isdigit()
IsDigits(s) == s # <<>> /\ \A i \in 1..Len(s) : s[i] \in DIGITS \cup NON_DECIMAL_DIGITS

\* s.isdecimal(): the strings of digits int(s) reads
IsDecimal(s) == s # <<>> /\ \A i \in 1..Len(s) : s[i] \in DIGITS

DigitValue(c) ==
    CASE c = "0" -> 0 [] c = "1" -> 1 [] c = "2" -> 2 [] c = "3" -> 3 [] c = "4" -> 4
      [] c = "5" -> 5 [] c = "6" -> 6 [] c = "7" -> 7 [] c = "8" -> 8 [] c = "9" -> 9

\* int(s) for a string of digits
RECURSIVE ToInt(_)
ToInt(s) ==
    IF s = <<>> THEN 0 ELSE 10 * ToInt(SubSeq(s, 1, Len(s) - 1)) + DigitValue(s[Len(s)])

DigitText(d) ==
    CASE d = 0 -> "0" [] d = 1 -> "1" [] d = 2 -> "2" [] d = 3 -> "3" [] d = 4 -> "4"
      [] d = 5 -> "5" [] d = 6 -> "6" [] d = 7 -> "7" [] d = 8 -> "8" [] d = 9 -> "9"

\* str(n) for a natural number
RECURSIVE NatText(_)
NatText(n) == IF n < 10 THEN DigitText(n) ELSE NatText(n \div 10) \o DigitText(n % 10)

\* f[x] summed over the finite set S
RECURSIVE SumOver(_, _)
SumOver(f, S) ==
    IF S = {} THEN 0
    ELSE LET x == CHOOSE y \in S : TRUE IN f[x] + SumOver(f, S \ {x})

\* p in s, for two texts
StrContains(s, p) ==
    \E i \in 1..(Len(s) - Len(p) + 1) : SubSeq(s, i, i + Len(p) - 1) = p

\* str(v) of an optional text: None prints as "None"
PyStr(o) == IF o = None THEN "None" ELSE o[1]

\* truth value of an optional text / an optional character sequence
TruthyText(o) == o # None /\ o[1] # ""
TruthyChars(o) == o # None /\ o[1] # <<>>

S_where == <<"w","h","e","r","e">>
S_limit == <<"l","i","m","i","t">>
S_group_by == <<"g","r","o","u","p"," ","b","y">>
S_order_by == <<"o","r","d","e","r"," ","b","y">>
\* the back quote of a Markdown code fence is written "~" throughout (a TLA+
\* string cannot hold a back quote); no text of the model holds a tilde
S_fence_sql == <<"~","~","~","s","q","l">>
S_fence == <<"~","~","~">>

(***************************************************************************)
(* config.py                                                               *)
(***************************************************************************)
MIN_DATA_POINTS == 3
DEFAULT_LIMIT == 5

(***************************************************************************)
(* The metadata files load_all_metadata reads: for each table its          *)
(* description, its columns in file order, its access column if it has     *)
(* one, and the text values of its example rows.                           *)
(***************************************************************************)
Catalog ==
    [t \in Tables |->
        CASE t = "inflasi" ->
               [chars |-> <<"i","n","f","l","a","s","i">>,
                description |-> <<"I","n","f","l","a","s","i"," ","t","a","h","u","n","a","n">>,
                columns |-> <<<<"t","a","h","u","n">>, <<"n","i","l","a","i","_","i","n","f","l","a","s","i">>, <<"k","o","d","e","_","w","i","l","a","y","a","h">>>>,
                access_column |-> Some(<<"k","o","d","e","_","w","i","l","a","y","a","h">>),
                example_values |-> <<<<"J","a","k","a","r","t","a">>>>]
          [] t = "pdb" ->
               [chars |-> <<"p","d","b">>,
                description |-> <<"P","r","o","d","u","k"," ","d","o","m","e","s","t","i","k"," ","b","r","u","t","o">>,
                columns |-> <<<<"t","a","h","u","n">>, <<"p","d","b">>>>,
                access_column |-> None,
                example_values |-> <<>>]
          [] t = "penduduk" ->
               [chars |-> <<"p","e","n","d","u","d","u","k">>,
                description |-> <<"J","u","m","l","a","h"," ","p","e","n","d","u","d","u","k">>,
                columns |-> <<>>,
                access_column |-> None,
                example_values |-> <<<<"J","a","k","a","r","t","a">>>>]]

\* the orders in which the metadata files can be loaded (glob order)
TableOrders == {<<"inflasi", "pdb", "penduduk">>, <<"penduduk", "pdb", "inflasi">>}

\* the points one column name earns: 2 for every query term it holds, 1 for
\* every longer term whose first three letters it starts with (half points)
ColumnScore(col_lower, query_terms) ==
    SumOver([term \in query_terms |->
                IF Contains(col_lower, term) THEN 4
                ELSE IF Len(term) > 3 /\ StartsWith(col_lower, SubSeq(term, 1, 3))
                THEN 2 ELSE 0], query_terms)

\* the points one example value earns: 0.5 for every query term it holds
ExampleScore(value_lower, query_terms) ==
    SumOver([term \in query_terms |->
                IF Contains(value_lower, term) THEN 1 ELSE 0], query_terms)

\* the score find_relevant_tables gives one table, in half points
RelevanceScore(meta, query_terms) ==
    (IF \E term \in query_terms : Contains(Lower(meta.description), term)
     THEN 6 ELSE 0)
    + SumOver([c \in DOMAIN meta.columns |->
                  ColumnScore(Lower(meta.columns[c]), query_terms)],
              DOMAIN meta.columns)
    + SumOver([e \in DOMAIN meta.example_values |->
                  ExampleScore(Lower(meta.example_values[e]), query_terms)],
              DOMAIN meta.example_values)

\* every table with its score, in load order
ScoredTables(order, query_terms) ==
    [i \in DOMAIN order |->
        [table_name |-> order[i],
         relevance_score |-> RelevanceScore(Catalog[order[i]], query_terms)]]

\* SortedByScore with equal scores in the reverse of the load order
SortedByScore_ties_reversed(scores) ==
    LET kept == {i \in DOMAIN scores : scores[i].relevance_score > 0}
        Before(j, i) == \/ scores[j].relevance_score > scores[i].relevance_score
                        \/ /\ scores[j].relevance_score = scores[i].relevance_score
                           /\ j > i
    IN  [k \in 1..Cardinality(kept) |->
            scores[CHOOSE i \in kept :
                       Cardinality({j \in kept : Before(j, i)}) = k - 1]]

\* the entries with a positive score, sorted by score, highest first; the
\* sort is stable, so equal scores keep the load order
SortedByScore(scores) ==
    LET kept == {i \in DOMAIN scores : scores[i].relevance_score > 0}
        Before(j, i) == \/ scores[j].relevance_score > scores[i].relevance_score
                        \/ /\ scores[j].relevance_score = scores[i].relevance_score
                           /\ j < i
    IN  [k \in 1..Cardinality(kept) |->
            scores[CHOOSE i \in kept :
                       Cardinality({j \in kept : Before(j, i)}) = k - 1]]

\* l[:k]
Top(l, k) == SubSeq(l, 1, IF k < Len(l) THEN k ELSE Len(l))

\* MetadataManager.find_relevant_tables
find_relevant_tables(user_query, top_k, order) ==
    Top(SortedByScore(ScoredTables(order, Words(Lower(user_query)))), top_k)

(***************************************************************************)
(* SQLValidator.inject_region_filter and add_limit_if_missing              *)
(***************************************************************************)
RegionPredicate(access_column, region) ==
    access_column \o <<" ","L","I","K","E"," ","'">> \o region \o <<"%","'">>

inject_region_filter(sql_in, access_column, region) ==
    IF access_column = <<>> \/ region = <<>> THEN sql_in
    ELSE LET sql_lower == Lower(sql_in)
             pred == RegionPredicate(access_column, region)
         IN  IF RegexThen(sql_lower, S_where, Lower(access_column))
             THEN sql_in
             ELSE IF Contains(sql_lower, S_where)
             THEN LET i == Find(sql_lower, S_where)
                  IN  SubSeq(sql_in, 1, i - 1) \o <<"W","H","E","R","E"," ">> \o pred \o <<" ","A","N","D">>
                          \o SubSeq(sql_in, i + Len(S_where), Len(sql_in))
             ELSE LET clauses == <<S_group_by, S_order_by, S_limit>>
                      found == {k \in DOMAIN clauses : Contains(sql_lower, clauses[k])}
                  IN  IF found # {}
                      THEN LET k == CHOOSE j \in found : \A m \in found : j <= m
                               idx == Find(sql_lower, clauses[k])
                           IN  SubSeq(sql_in, 1, idx - 1) \o <<" ","W","H","E","R","E"," ">> \o pred \o <<" ">>
                                   \o SubSeq(sql_in, idx, Len(sql_in))
                      ELSE RStripSemi(sql_in) \o <<" ","W","H","E","R","E"," ">> \o pred \o <<";">>

add_limit_if_missing(sql_in) ==
    IF Contains(Lower(sql_in), S_limit) THEN sql_in
    ELSE Strip(RStripSemi(sql_in)) \o <<" ","L","I","M","I","T"," ">> \o <<DigitText(DEFAULT_LIMIT)>> \o <<";">>

(***************************************************************************)
(* The nodes of src/nodes.py.  A node takes the AgentState and what the    *)
(* outside world answers to the requests it makes, and gives               *)
(*   st     the AgentState it returns,                                     *)
(*   calls  the external requests it made, in order,                       *)
(*   raised whether it raised instead of returning.                        *)
(* table_metadata holds the name of the table whose Catalog entry it is.   *)
(***************************************************************************)
Ret(st, calls) == [st |-> st, calls |-> calls, raised |-> FALSE]
Raise(st, calls) == [st |-> st, calls |-> calls, raised |-> TRUE]
\* a request to an external service and whether it came back without a failure
CallOutcome(kind, arg, ok) == [kind |-> kind, arg |-> arg, ok |-> ok]
Call(kind, arg) == CallOutcome(kind, arg, TRUE)

Fail(s, msg, calls) ==
    Ret([s EXCEPT !.error = Some(msg), !.next_node = Some("error_handler")], calls)

forecast_keywords ==
    {<<"p","r","e","d","i","k","s","i">>, <<"f","o","r","e","c","a","s","t">>, <<"r","a","m","a","l">>, <<"e","s","t","i","m","a","s","i">>, <<"p","r","o","y","e","k","s","i">>, <<"t","r","e","n">>, <<"m","a","s","a"," ","d","e","p","a","n">>}
sql_keywords ==
    {<<"t","a","m","p","i","l","k","a","n">>, <<"l","i","h","a","t">>, <<"b","e","r","a","p","a">>, <<"t","o","t","a","l">>, <<"j","u","m","l","a","h">>, <<"d","a","t","a">>, <<"s","e","l","e","c","t">>,
     <<"d","a","f","t","a","r">>, <<"s","t","a","t","i","s","t","i","k">>}

\* router_node that also drops the user's answer to an earlier question
router_node_drops_answer(s) ==
    LET user_input == Lower(s.user_input)
        intent == IF \E keyword \in forecast_keywords : Contains(user_input, keyword)
                  THEN "forecast"
                  ELSE IF \E keyword \in sql_keywords : Contains(user_input, keyword)
                  THEN "sql"
                  ELSE "clarify"
    IN  Ret([s EXCEPT !.intent = Some(intent),
                      !.clarification_response = None,
                      !.next_node = Some("metadata_retriever")], <<>>)

\* router_node with the data-query keywords tested first
router_node_sql_first(s) ==
    LET user_input == Lower(s.user_input)
        intent == IF \E keyword \in sql_keywords : Contains(user_input, keyword)
                  THEN "sql"
                  ELSE IF \E keyword \in forecast_keywords : Contains(user_input, keyword)
                  THEN "forecast"
                  ELSE "clarify"
    IN  Ret([s EXCEPT !.intent = Some(intent),
                      !.next_node = Some("metadata_retriever")], <<>>)

router_node(s) ==
    LET user_input == Lower(s.user_input)
        intent == IF \E keyword \in forecast_keywords : Contains(user_input, keyword)
                  THEN "forecast"
                  ELSE IF \E keyword \in sql_keywords : Contains(user_input, keyword)
                  THEN "sql"
                  ELSE "clarify"
    IN  Ret([s EXCEPT !.intent = Some(intent),
                      !.next_node = Some("metadata_retriever")], <<>>)

\* a confidence Python can compare with 0.3
IsNumber(val) == val.t \in {"int", "float", "bool"}

\* the retriever once the selector has answered
EnhancedSelected(s1, selection_result, calls) ==
    IF selection_result.selected # None /\ ~IsNumber(selection_result.confidence)
    THEN Raise(s1, calls)                  \* TypeError: '>' with str or None
    ELSE IF selection_result.selected # None /\ selection_result.confidence.v > 3
    THEN Ret([s1 EXCEPT
                !.selected_table = Some(selection_result.selected[1].table_name),
                !.table_metadata = Some(selection_result.selected[1].table_name),
                !.selection_confidence = Some(selection_result.confidence),
                !.selection_reason = Some(selection_result.reason),
                !.next_node = Some("planner")], calls)
    ELSE Ret([s1 EXCEPT
                !.selected_table = Some(MaxByScore(s1.relevant_tables).table_name),
                !.table_metadata = Some(MaxByScore(s1.relevant_tables).table_name),
                !.next_node = Some("planner")], calls)

SelectorCalls(selection_result, reply) ==
    IF selection_result.llm_called
    THEN <<CallOutcome("select_llm", <<>>, reply.kind # "fail")>>
    ELSE <<>>

\* enhanced_metadata_retriever_node without the early return for a clarify intent
enhanced_metadata_retriever_node_no_skip(s, relevant_tables, reply) ==
    IF relevant_tables = <<>>
    THEN Ret([s EXCEPT !.relevant_tables = relevant_tables,
                       !.needs_clarification = FALSE,
                       !.next_node = Some("clarify_agent")], <<>>)
    ELSE EnhancedSelected([s EXCEPT !.relevant_tables = relevant_tables],
                          select_best_table(relevant_tables, reply),
                          SelectorCalls(select_best_table(relevant_tables, reply), reply))

\* relevant_tables: what find_relevant_tables(user_input, top_k=5) returns;
\* reply: the table-selection answer of the language model, if it is asked
enhanced_metadata_retriever_node(s, relevant_tables, reply) ==
    IF s.intent = Some("clarify")
    THEN Ret([s EXCEPT !.next_node = Some("clarify_agent")], <<>>)
    ELSE IF relevant_tables = <<>>
    THEN Ret([s EXCEPT !.relevant_tables = relevant_tables,
                       !.needs_clarification = FALSE,
                       !.next_node = Some("clarify_agent")], <<>>)
    ELSE EnhancedSelected([s EXCEPT !.relevant_tables = relevant_tables],
                          select_best_table(relevant_tables, reply),
                          SelectorCalls(select_best_table(relevant_tables, reply), reply))

\* f"{score:.1f}" of a score counted in half points
ScoreText(half) == NatText(half \div 2) \o (IF half % 2 = 0 THEN ".0" ELSE ".5")

RECURSIVE TableOptions(_, _)
TableOptions(l, i) ==
    IF i > Len(l) THEN ""
    ELSE NatText(i) \o ". " \o l[i].table_name \o " (relevansi: "
           \o ScoreText(l[i].relevance_score) \o ")"
           \o (IF i < Len(l) THEN "\n" ELSE "") \o TableOptions(l, i + 1)

ClarificationQuestion(l) ==
    "Saya menemukan " \o NatText(Len(l)) \o " tabel yang mungkin relevan:\n\n"
        \o TableOptions(l, 1) \o "\n\n"
        \o "Tabel mana yang Anda maksud? (sebutkan nomor 1-" \o NatText(Len(l)) \o ")"

\* metadata_retriever_node_basic that takes the first of several candidates
\* instead of asking
metadata_retriever_node_basic_picks_first(s, relevant_tables) ==
    IF s.intent = Some("clarify")
    THEN Ret([s EXCEPT !.next_node = Some("clarify_agent")], <<>>)
    ELSE IF relevant_tables = <<>>
    THEN Ret([s EXCEPT !.relevant_tables = relevant_tables,
                       !.needs_clarification = FALSE,
                       !.next_node = Some("clarify_agent")], <<>>)
    ELSE Ret([s EXCEPT
                !.relevant_tables = relevant_tables,
                !.selected_table = Some(relevant_tables[1].table_name),
                !.table_metadata = Some(relevant_tables[1].table_name),
                !.next_node = Some("planner")], <<>>)

\* relevant_tables: what find_relevant_tables(user_input, top_k=3) returns
metadata_retriever_node_basic(s, relevant_tables) ==
    IF s.intent = Some("clarify")
    THEN Ret([s EXCEPT !.next_node = Some("clarify_agent")], <<>>)
    ELSE IF relevant_tables = <<>>
    THEN Ret([s EXCEPT !.relevant_tables = relevant_tables,
                       !.needs_clarification = FALSE,
                       !.next_node = Some("clarify_agent")], <<>>)
    ELSE IF Len(relevant_tables) = 1
    THEN Ret([s EXCEPT
                !.relevant_tables = relevant_tables,
                !.selected_table = Some(relevant_tables[1].table_name),
                !.table_metadata = Some(relevant_tables[1].table_name),
                !.next_node = Some("planner")], <<>>)
    ELSE Ret([s EXCEPT
                !.relevant_tables = relevant_tables,
                !.needs_clarification = TRUE,
                !.clarification_question = Some(ClarificationQuestion(relevant_tables)),
                !.next_node = Some("clarify_agent")], <<>>)

\* planner_node that sends a context without a selected table to the clarify step
planner_node_needs_table(s) ==
    Ret([s EXCEPT !.next_node =
            Some(IF ~TruthyText(s.selected_table) THEN "clarify_agent"
                 ELSE IF s.intent = Some("forecast") THEN "forecast_agent"
                 ELSE IF s.intent = Some("sql") THEN "sql_agent"
                 ELSE "clarify_agent")], <<>>)

planner_node(s) ==
    Ret([s EXCEPT !.next_node =
            Some(IF s.intent = Some("forecast") THEN "forecast_agent"
                 ELSE IF s.intent = Some("sql") THEN "sql_agent"
                 ELSE "clarify_agent")], <<>>)

\* content.strip().replace(fence_sql, "").replace(fence, "").strip()
CleanSql(content) == Strip(Remove(Remove(Strip(content), S_fence_sql), S_fence))

\* the region filter, for a table with an access column and a user with a region
FilterRegion(raw_sql, access_column, region) ==
    IF TruthyChars(access_column) /\ TruthyChars(region)
    THEN inject_region_filter(raw_sql, access_column[1], region[1])
    ELSE raw_sql

SqlAccepted(s, final_sql, calls) ==
    Ret([s EXCEPT !.raw_sql = Some(final_sql),
                  !.validated_sql = Some(final_sql),
                  !.next_node = Some("sql_executor")], calls)

SqlChecked(s, raw_sql, result, calls) ==
    IF ~result.is_valid
    THEN Fail(s, "SQL validation failed: " \o result.reason, calls)
    ELSE SqlAccepted(s, add_limit_if_missing(
                            FilterRegion(raw_sql,
                                         Catalog[s.selected_table[1]].access_column,
                                         s.region)), calls)

SqlGenerated(s, raw_sql, calls) == SqlChecked(s, raw_sql, validate_sql(raw_sql), calls)

\* the part the two SQL agents share: find the table, ask for a statement,
\* strip the code fences, validate, inject the region filter, add the LIMIT.
\* llm: the answer of call_sql_llm
SqlAgent(s, llm, no_table, not_found) ==
    IF ~TruthyText(s.selected_table)
    THEN Fail(s, no_table, <<>>)
    ELSE IF /\ \A i \in DOMAIN s.relevant_tables :
                  s.relevant_tables[i].table_name # s.selected_table[1]
            /\ s.selected_table[1] \notin Tables
    THEN Fail(s, not_found, <<>>)
    ELSE IF ~llm.success
    THEN Fail(s, "SQL generation failed: " \o llm.error,
              <<CallOutcome("sql_llm", <<>>, FALSE)>>)
    ELSE SqlGenerated(s, CleanSql(llm.content), <<Call("sql_llm", <<>>)>>)

enhanced_sql_agent_node(s, llm) ==
    SqlAgent(s, llm, "No table selected",
             "Table " \o PyStr(s.selected_table) \o " not found")

sql_agent_node_basic(s, llm) ==
    SqlAgent(s, llm, "Tidak ada tabel yang dipilih",
             "Tabel " \o PyStr(s.selected_table) \o " tidak ditemukan")

\* sql_executor_node that hands over whatever validated_sql holds
sql_executor_node_unguarded(s, db) ==
    IF db.success
    THEN Ret([s EXCEPT !.execution_result = Some([row_count |-> db.row_count]),
                       !.next_node = Some("response_formatter")],
             <<Call("execute", IF s.validated_sql = None THEN <<>> ELSE s.validated_sql[1])>>)
    ELSE Fail(s, db.error,
              <<CallOutcome("execute", IF s.validated_sql = None THEN <<>> ELSE s.validated_sql[1], FALSE)>>)

\* db: the answer of SQLExecutor.execute
sql_executor_node(s, db) ==
    IF ~TruthyChars(s.validated_sql)
    THEN Fail(s, "No SQL query to execute", <<>>)
    ELSE IF db.success
    THEN Ret([s EXCEPT !.execution_result = Some([row_count |-> db.row_count]),
                       !.next_node = Some("response_formatter")],
             <<Call("execute", s.validated_sql[1])>>)
    ELSE Fail(s, db.error, <<CallOutcome("execute", s.validated_sql[1], FALSE)>>)

(***************************************************************************)
(* The columns the forecast agents choose and the statement they build.    *)
(* A column is its name and its type.                                      *)
(***************************************************************************)
date_keywords ==
    {<<"t","a","h","u","n">>, <<"y","e","a","r">>, <<"b","u","l","a","n">>, <<"m","o","n","t","h">>, <<"t","a","n","g","g","a","l">>, <<"d","a","t","e">>, <<"p","e","r","i","o","d","e">>}
value_keywords ==
    {<<"n","i","l","a","i">>, <<"v","a","l","u","e">>, <<"j","u","m","l","a","h">>, <<"t","o","t","a","l">>, <<"d","e","v","i","s","a">>, <<"p","e","n","d","a","p","a","t","a","n">>, <<"q","t","y">>, <<"q","u","a","n","t","i","t","y">>, <<"v","o","l","u","m","e">>}
\* the keyword lists of forecast_agent_node_basic
basic_date_keywords == date_keywords \ {<<"p","e","r","i","o","d","e">>}
basic_value_keywords == value_keywords \ {<<"d","e","v","i","s","a">>, <<"p","e","n","d","a","p","a","t","a","n">>}

\* sum(1 for keyword in keywords if keyword in col_lower)
KeywordScore(col, keywords) == Cardinality({k \in keywords : Contains(Lower(col), k)})

\* the column types that make a column a date or a value column
DATE_TYPES == {<<"d","a","t","e">>, <<"d","a","t","e","t","i","m","e">>, <<"t","i","m","e","s","t","a","m","p">>, <<"y","e","a","r">>, <<"m","o","n","t","h">>}
VALUE_TYPES ==
    {<<"i","n","t","e","g","e","r">>, <<"i","n","t">>, <<"f","l","o","a","t">>, <<"d","o","u","b","l","e">>, <<"d","e","c","i","m","a","l">>, <<"n","u","m","e","r","i","c">>, <<"n","u","m","b","e","r">>}

\* the columns of a catalog table, which carry no type
Untyped(names) == [i \in DOMAIN names |-> [name |-> names[i], type |-> <<>>]]

\* the positions of the columns whose name holds a keyword
NameCandidates(columns, keywords) ==
    {i \in DOMAIN columns : KeywordScore(columns[i].name, keywords) > 0}

\* date_candidates and value_candidates: by a keyword in the name or by type
DateCandidates(columns) ==
    {i \in DOMAIN columns :
        \/ KeywordScore(columns[i].name, date_keywords) > 0
        \/ Lower(columns[i].type) \in DATE_TYPES}

ValueCandidates(columns) ==
    {i \in DOMAIN columns :
        \/ KeywordScore(columns[i].name, value_keywords) > 0
        \/ Lower(columns[i].type) \in VALUE_TYPES}

\* the first position of a set of positions
First(positions) == CHOOSE i \in positions : \A j \in positions : i <= j

\* max(candidates, key=score): the first of the best
BestCandidate(columns, candidates, keywords) ==
    CHOOSE i \in candidates :
        \A j \in candidates :
            \/ KeywordScore(columns[j].name, keywords) < KeywordScore(columns[i].name, keywords)
            \/ /\ KeywordScore(columns[j].name, keywords) = KeywordScore(columns[i].name, keywords)
               /\ i <= j

\* the positions of the columns other than the one at position d
Others(columns, d) == {i \in DOMAIN columns : i # d}

\* EnhancedForecastAgent.detect_time_series_columns: the position of the date
\* column, 0 for None (a column of a date type is a candidate, so the
\* fallback always takes the first column)
DetectDate(columns) ==
    IF DateCandidates(columns) # {}
    THEN BestCandidate(columns, DateCandidates(columns), date_keywords)
    ELSE IF columns # <<>> THEN 1 ELSE 0

\* the value column before the date and the value column are compared
DetectValueFirst(columns) ==
    IF ValueCandidates(columns) # {}
    THEN BestCandidate(columns, ValueCandidates(columns), value_keywords)
    ELSE IF Len(columns) > 1 THEN First(Others(columns, DetectDate(columns)))
    ELSE IF columns # <<>> THEN 1 ELSE 0

DetectValue(columns) ==
    IF DetectValueFirst(columns) = DetectDate(columns) /\ Len(columns) > 1
    THEN First(Others(columns, DetectDate(columns)))
    ELSE DetectValueFirst(columns)

DetectConfidence(columns) ==
    IF DetectDate(columns) = 0 \/ DetectValue(columns) = 0 THEN "low"
    ELSE IF DateCandidates(columns) = {} \/ ValueCandidates(columns) = {} THEN "medium"
    ELSE "high"

detect_time_series_columns(columns) ==
    [date_column |-> DetectDate(columns),
     value_column |-> DetectValue(columns),
     confidence |-> DetectConfidence(columns)]

\* the choice of forecast_agent_node_basic, which is made on a table with
\* columns: the first candidate of each kind, by the name alone
BasicDate(columns) ==
    IF NameCandidates(columns, basic_date_keywords) # {}
    THEN First(NameCandidates(columns, basic_date_keywords))
    ELSE 1

BasicValue(columns) ==
    IF NameCandidates(columns, basic_value_keywords) # {}
    THEN First(NameCandidates(columns, basic_value_keywords))
    ELSE IF Len(columns) > 1 THEN First(Others(columns, BasicDate(columns)))
    ELSE 1

\* f"SELECT {date}, {value} FROM {table}" [+ " WHERE {column} LIKE '{region}%'"]
\*     + " ORDER BY {date}"
ForecastSql(date_col, value_col, table_name, access_column, region) ==
    <<"S","E","L","E","C","T"," ">> \o date_col \o <<",", " ">> \o value_col
        \o <<" ","F","R","O","M"," ">> \o table_name
        \o (IF TruthyChars(access_column) /\ TruthyChars(region)
            THEN <<" ","W","H","E","R","E"," ">> \o RegionPredicate(access_column[1], region[1])
            ELSE <<>>)
        \o <<" ","O","R","D","E","R"," ","B","Y"," ">> \o date_col

\* the statement of forecast_agent_node_basic for the table in s
BasicForecastSql(s) ==
    ForecastSql(Catalog[s.table_metadata[1]].columns[
                    BasicDate(Untyped(Catalog[s.table_metadata[1]].columns))],
                Catalog[s.table_metadata[1]].columns[
                    BasicValue(Untyped(Catalog[s.table_metadata[1]].columns))],
                Catalog[s.selected_table[1]].chars,
                Catalog[s.table_metadata[1]].access_column, s.region)

\* the statement of enhanced_forecast for the table in s
EnhancedForecastSql(s) ==
    ForecastSql(Catalog[s.table_metadata[1]].columns[
                    DetectDate(Untyped(Catalog[s.table_metadata[1]].columns))],
                Catalog[s.table_metadata[1]].columns[
                    DetectValue(Untyped(Catalog[s.table_metadata[1]].columns))],
                Catalog[s.selected_table[1]].chars,
                Catalog[s.table_metadata[1]].access_column, s.region)

\* fc: what the forecast agent's own query and fit come back with
forecast_agent_node_basic(s, fc) ==
    IF ~TruthyText(s.selected_table)
    THEN Fail(s, "Tidak ada tabel yang dipilih untuk forecasting", <<>>)
    ELSE IF s.table_metadata = None
    THEN Raise(s, <<>>)                    \* AttributeError: None.get
    ELSE IF Catalog[s.table_metadata[1]].columns = <<>>
    THEN Fail(s, "Tabel metadata tidak memiliki informasi kolom", <<>>)
    ELSE LET calls == <<CallOutcome("forecast_execute", BasicForecastSql(s), fc.success)>>
         IN  IF ~fc.success
             THEN Fail(s, fc.error, calls)
             ELSE IF fc.row_count < MIN_DATA_POINTS
             THEN Fail(s, "Data tidak cukup untuk forecasting. Minimal "
                              \o NatText(MIN_DATA_POINTS) \o " baris, dapat "
                              \o NatText(fc.row_count), calls)
             ELSE IF ~fc.fit_ok
             THEN Fail(s, fc.error, calls)
             ELSE Ret([s EXCEPT
                         !.forecast_result = Some([method |-> "linear_regression",
                                                   data_points |-> fc.row_count]),
                         !.next_node = Some("response_formatter")], calls)

\* workflow.enhanced_forecast_agent_node with EnhancedForecastAgent.enhanced_forecast:
\* column detection finds no date or value column exactly when the table has
\* no columns
enhanced_forecast_agent_node(s, fc) ==
    IF ~TruthyText(s.selected_table)
    THEN Fail(s, "No table selected for forecasting", <<>>)
    ELSE IF s.table_metadata = None
    THEN Raise(s, <<>>)                    \* AttributeError: None.get
    ELSE IF Catalog[s.table_metadata[1]].columns = <<>>
    THEN Fail(s, "Tidak dapat mendeteksi kolom tanggal dan nilai", <<>>)
    ELSE LET calls == <<CallOutcome("forecast_execute", EnhancedForecastSql(s), fc.success)>>
         IN  IF ~fc.success
             THEN Fail(s, fc.error, calls)
             ELSE IF fc.row_count < MIN_DATA_POINTS
             THEN Fail(s, "Insufficient data: " \o NatText(fc.row_count) \o " rows", calls)
             ELSE IF ~fc.fit_ok
             THEN Fail(s, fc.error, calls)
             ELSE Ret([s EXCEPT
                         !.forecast_result = Some([method |-> "linear_regression",
                                                   data_points |-> fc.row_count]),
                         !.next_node = Some("response_formatter")], calls)

\* clarify_agent_node that reads the answer as a 0-based index
clarify_agent_node_zero_based(s, llm, web_ok) ==
    LET response == IF s.clarification_response = None THEN <<>>
                    ELSE Strip(s.clarification_response[1])
        idx == ToInt(response)
    IN  IF /\ TruthyChars(s.clarification_response)
           /\ IsDigits(response)
           /\ ~IsDecimal(response)
        THEN Raise(s, <<>>)
        ELSE IF /\ TruthyChars(s.clarification_response)
           /\ IsDigits(response)
           /\ 0 <= idx
           /\ idx < Len(s.relevant_tables)
        THEN Ret([s EXCEPT
                    !.selected_table = Some(s.relevant_tables[idx + 1].table_name),
                    !.table_metadata = Some(s.relevant_tables[idx + 1].table_name),
                    !.needs_clarification = FALSE,
                    !.clarification_question = None,
                    !.clarification_response = None,
                    !.next_node = Some("planner")], <<>>)
        ELSE IF s.needs_clarification /\ TruthyText(s.clarification_question)
        THEN Ret([s EXCEPT !.final_answer = s.clarification_question,
                           !.next_node = Some("end")], <<>>)
        ELSE Ret([s EXCEPT !.error = Some("Gagal menghasilkan jawaban dari Web Search."),
                           !.next_node = Some("end")],
                 <<CallOutcome("web_search", s.user_input, web_ok),
                   CallOutcome("user_llm", <<>>, llm.success)>>)

\* web_ok: whether the search came back without an exception (search turns
\* an exception into the text it returns); llm: the answer of
\* call_user_llm, if the web path is taken.  int(response) raises a
\* ValueError on a digit that is no decimal digit.
clarify_agent_node(s, llm, web_ok) ==
    LET response == IF s.clarification_response = None THEN <<>>
                    ELSE Strip(s.clarification_response[1])
        idx == ToInt(response) - 1
    IN  IF /\ TruthyChars(s.clarification_response)
           /\ IsDigits(response)
           /\ ~IsDecimal(response)
        THEN Raise(s, <<>>)
        ELSE IF /\ TruthyChars(s.clarification_response)
           /\ IsDigits(response)
           /\ 0 <= idx
           /\ idx < Len(s.relevant_tables)
        THEN Ret([s EXCEPT
                    !.selected_table = Some(s.relevant_tables[idx + 1].table_name),
                    !.table_metadata = Some(s.relevant_tables[idx + 1].table_name),
                    !.needs_clarification = FALSE,
                    !.clarification_question = None,
                    !.clarification_response = None,
                    !.next_node = Some("planner")], <<>>)
        ELSE IF s.needs_clarification /\ TruthyText(s.clarification_question)
        THEN Ret([s EXCEPT !.final_answer = s.clarification_question,
                           !.next_node = Some("end")], <<>>)
        ELSE LET calls == <<CallOutcome("web_search", s.user_input, web_ok),
                             CallOutcome("user_llm", <<>>, llm.success)>>
             IN  IF llm.success
                 THEN Ret([s EXCEPT !.final_answer = Some(llm.content),
                                    !.next_node = Some("end")], calls)
                 ELSE Ret([s EXCEPT
                             !.error = Some("Gagal menghasilkan jawaban dari Web Search."),
                             !.next_node = Some("end")], calls)

\* the rendering of the result rows (df.head(10).to_markdown()) is not
\* spelled out; the emoji that open the fixed texts are left out.
\* llm: the answer of call_user_llm; markdown_ok: whether to_markdown works
response_formatter_node(s, llm, markdown_ok) ==
    IF s.execution_result # None
    THEN IF s.execution_result[1].row_count = 0
         THEN Ret([s EXCEPT
                 !.final_answer = Some(
                     "**HASIL QUERY**\n\n"
                     \o "Tabel: " \o PyStr(s.selected_table) \o "\n"
                     \o "Query berhasil dieksekusi tetapi tidak ada data yang ditemukan sesuai kriteria filter Anda."
                     \o (IF TruthyChars(s.validated_sql)
                         THEN "\n\n**Query SQL:**\n" \o Join(S_fence_sql) \o "\n"
                                  \o Join(s.validated_sql[1]) \o "\n" \o Join(S_fence)
                         ELSE "")),
                 !.next_node = Some("end")], <<>>)
         ELSE IF ~markdown_ok
         THEN Fail(s, "Response formatting error: Missing optional dependency 'tabulate'", <<>>)
         ELSE Ret([s EXCEPT
                 !.final_answer = Some(
                     IF llm.success THEN llm.content
                     ELSE "Berikut data yang ditemukan:\n\n<data_preview>\n\n(Gagal membuat narasi penjelasan)"),
                 !.next_node = Some("end")], <<CallOutcome("user_llm", <<>>, llm.success)>>)
    ELSE IF s.forecast_result # None
    THEN Ret([s EXCEPT
            !.final_answer = Some(
                IF llm.success THEN llm.content
                ELSE "**HASIL FORECASTING**\n\nMetode: " \o s.forecast_result[1].method
                        \o "\n\n<predictions>"),
            !.next_node = Some("end")], <<CallOutcome("user_llm", <<>>, llm.success)>>)
    ELSE Ret([s EXCEPT
            !.final_answer = IF TruthyText(s.final_answer) THEN s.final_answer
                             ELSE Some("Maaf, tidak ada data yang dapat ditampilkan saat ini."),
            !.next_node = Some("end")], <<>>)

\* error_handler_node that leaves the question out of its message
error_handler_node_without_query(s) ==
    Ret([s EXCEPT
           !.final_answer = Some(
               "**ERROR**\n\n" \o PyStr(s.error) \o "\n\n"
               \o "**Table:** " \o PyStr(s.selected_table) \o "\n\n"
               \o "Silakan coba lagi dengan query yang lebih spesifik."),
           !.next_node = Some("end")], <<>>)

error_handler_node(s) ==
    Ret([s EXCEPT
           !.final_answer = Some(
               "**ERROR**\n\n" \o PyStr(s.error) \o "\n\n"
               \o "**Query:** " \o Join(s.user_input) \o "\n"
               \o "**Table:** " \o PyStr(s.selected_table) \o "\n\n"
               \o "Silakan coba lagi dengan query yang lebih spesifik."),
           !.next_node = Some("end")], <<>>)

end_node(s) == Ret(s, <<>>)

(***************************************************************************)
(* The graph of src/workflow.py: the routing functions of the conditional  *)
(* edges and the nodes' fixed edges, the same in the three workflows.      *)
(***************************************************************************)
\* state.get("next_node", default): next_node is a key of every AgentState
NextNodeOf(s) == IF s.next_node = None THEN "raised" ELSE s.next_node[1]

route_after_router(s) == NextNodeOf(s)

route_after_metadata(s) == IF s.needs_clarification THEN "clarify_agent" ELSE "planner"

route_after_planner(s) == NextNodeOf(s)

route_after_clarify(s) == IF s.needs_clarification THEN "end" ELSE NextNodeOf(s)

(***************************************************************************)
(* The parts of the state a run of one component leaves idle.              *)
(***************************************************************************)
ValidatorIdle == sql = <<>> /\ validation = None
SelectorIdle == candidate_tables = <<>> /\ llm_reply = NoReply /\ selection = None
InjectorIdle == inj_sql = <<>> /\ inj_column = <<>> /\ inj_region = <<>> /\ inj_result = None
RetrievalIdle ==
    rt_query = <<>> /\ rt_top_k = 0 /\ rt_order = <<>> /\ rt_result = None
ForecastIdle ==
    fc_df = <<>> /\ fc_caller = "none" /\ fc_periods = 0 /\ fc_result = None
LoaderIdle ==
    md_store = <<>> /\ md_cache = <<>> /\ md_loaded = FALSE /\ md_calls = <<>>
DetectIdle == dt_columns = <<>> /\ dt_result = None
WorkflowIdle ==
    /\ wf = "none"
    /\ pc = "idle"
    /\ state = [user_input |-> <<>>]
    /\ table_order = <<>>
    /\ fresh = TRUE
    /\ trace = <<>>
    /\ events = <<>>

InitValidator ==
    /\ sql \in Statements
    /\ validation = None
    /\ SelectorIdle
    /\ InjectorIdle
    /\ RetrievalIdle
    /\ ForecastIdle
    /\ WorkflowIdle
    /\ LoaderIdle
    /\ DetectIdle

ValidateCall ==
    /\ validation = None
    /\ validation' = Some(validate_sql(sql))
    /\ UNCHANGED <<sql, svars, ivars, rvars, fvars, wvars, lvars, dvars>>

NextValidator == ValidateCall

SpecValidator == InitValidator /\ [][NextValidator]_vars

(***************************************************************************)
(* The selector on its own: one call of select_best_table on any ranked    *)
(* candidate list, with any answer of the language model.                  *)
(***************************************************************************)
InitSelector ==
    /\ candidate_tables \in RankedLists(MaxCandidates)
    /\ llm_reply \in LLMReplies(Len(candidate_tables))
    /\ selection = None
    /\ ValidatorIdle
    /\ InjectorIdle
    /\ RetrievalIdle
    /\ ForecastIdle
    /\ WorkflowIdle
    /\ LoaderIdle
    /\ DetectIdle

SelectCall ==
    /\ selection = None
    /\ selection' = Some(select_best_table(candidate_tables, llm_reply))
    /\ UNCHANGED <<candidate_tables, llm_reply, vvars, ivars, rvars, fvars, wvars, lvars, dvars>>

NextSelector == SelectCall

SpecSelector == InitSelector /\ [][NextSelector]_vars

(***************************************************************************)
(* SmartTableSelector.build_smart_sql_prompt: the rule about the region.   *)
(* The empty access_column stands for a missing and for an empty one.      *)
(***************************************************************************)
is_valid_access_col(raw_access_col) ==
    Strip(Lower(raw_access_col)) \notin {<<"n","o","n","e">>, <<"n","u","l","l">>, <<>>}

NoRegionRule ==
    <<"2","."," ","D","o"," ","N","O","T"," ","a","d","d"," ","a","n","y"," ","r","e","g","i","o","n"," ","f","i","l","t","e","r"," ","(","A","c","c","e","s","s"," ","C","o","l","u","m","n"," ","i","s"," ","n","o","t"," ","a","p","p","l","i","c","a","b","l","e"," ","f","o","r"," ","t","h","i","s"," ","t","a","b","l","e",")",".">>

region_rule(raw_access_col, region) ==
    IF is_valid_access_col(raw_access_col) /\ region # <<>>
    THEN <<"2","."," ","T","h","e"," ","u","s","e","r"," ","i","s"," ","r","e","s","t","r","i","c","t","e","d"," ","t","o"," ","r","e","g","i","o","n"," ","'">> \o region
             \o <<"'","."," ","Y","o","u"," ","M","U","S","T"," ","a","d","d",":"," ","W","H","E","R","E"," ">> \o RegionPredicate(raw_access_col, region)
    ELSE NoRegionRule

(***************************************************************************)
(* The region filter on its own: inject_region_filter applied to a         *)
(* statement, and applied again to what it returned.                       *)
(***************************************************************************)
InjBase == <<"S","E","L","E","C","T"," ","*"," ","F","R","O","M"," ","t">>

\* the WHERE clause the statement comes with
InjWheres == {
    <<>>,
    <<" ","W","H","E","R","E"," ","a"," ","="," ","1">>,
    <<" ","w","h","e","r","e"," ","k","o","d","e"," ","L","I","K","E"," ","'","3","2","%","'">>,
    <<" ","W","H","E","R","E"," ","a"," ","="," ","1"," ","A","N","D"," ","k","o","d","e"," ","L","I","K","E"," ","'","3","2","%","'">>,
    <<" ","W","H","E","R","E"," ","k","o","d","e"," ","L","I","K","E"," ","'","3","1","%","'">>,
    <<" ","W","H","E","R","E"," ","a"," ","="," ","'","k","o","d","e","'">> }

InjTails == {
    <<>>,
    <<";">>,
    <<" ","G","R","O","U","P"," ","B","Y"," ","a">>,
    <<" ","O","R","D","E","R"," ","B","Y"," ","k","o","d","e">>,
    <<" ","L","I","M","I","T"," ","5">>,
    <<" ","o","r","d","e","r"," ","b","y"," ","a"," ","l","i","m","i","t"," ","5",";">> }

\* statements in which the letters of a keyword are part of a column name
InjIdentifiers == {
    <<"S","E","L","E","C","T"," ","l","i","m","i","t","_","a","t","a","s"," ","F","R","O","M"," ","t">>,
    <<"S","E","L","E","C","T"," ","*"," ","F","R","O","M"," ","t"," ","O","R","D","E","R"," ","B","Y"," ","e","l","s","e","w","h","e","r","e">> }

InjStatements == {InjBase \o w \o tl : w \in InjWheres, tl \in InjTails} \cup InjIdentifiers

\* metadata's access_column (absent, or a column name) and the user's region
\* a catalog file can also hold the text None for a column that is not there
InjColumns == {<<>>, <<"k","o","d","e">>, <<"K","o","d","e">>, <<"N","o","n","e">>}
InjRegions == {<<>>, <<"3","2">>, <<"3">>}

InitInjector ==
    /\ inj_sql \in InjStatements
    /\ inj_column \in InjColumns
    /\ inj_region \in InjRegions
    /\ inj_result = None
    /\ ValidatorIdle
    /\ SelectorIdle
    /\ RetrievalIdle
    /\ ForecastIdle
    /\ WorkflowIdle
    /\ LoaderIdle
    /\ DetectIdle

\* rule: the region rule build_smart_sql_prompt writes into the prompt the
\* statement was generated from
InjectTwice(once) ==
    [once |-> once, twice |-> inject_region_filter(once, inj_column, inj_region),
     rule |-> region_rule(inj_column, inj_region)]

InjectCall ==
    /\ inj_result = None
    /\ inj_result' = Some(InjectTwice(inject_region_filter(inj_sql, inj_column, inj_region)))
    /\ UNCHANGED <<inj_sql, inj_column, inj_region, vvars, svars, rvars, fvars, wvars, lvars, dvars>>

NextInjector == InjectCall

SpecInjector == InitInjector /\ [][NextInjector]_vars

(***************************************************************************)
(* The forecast of src/forecast_agent.py on the rows its query returned.   *)
(* A cell of the date column is a number (a year, also when it is written  *)
(* as text) or a text pandas cannot read as a number; a cell of the value  *)
(* column is a number or a NULL.  Floats are kept in thousandths.          *)
(***************************************************************************)
\* the default of config.DEFAULT_FORECAST_PERIODS, and the values the
\* environment can set it to: the default, and one more
DEFAULT_FORECAST_PERIODS == 3
ConfiguredPeriods == {DEFAULT_FORECAST_PERIODS, DEFAULT_FORECAST_PERIODS + 1}

Num(k) == [t |-> "num", v |-> k]
TextCell == [t |-> "text", v |-> 0]
Null == [t |-> "null", v |-> 0]

\* the date column as numbers: pd.to_numeric(errors='coerce'), and the row
\* index 0..n-1 for the whole column if a cell did not convert
DateNumbers(df) ==
    IF \A i \in 1..Len(df) : df[i].date.t = "num"
    THEN [i \in 1..Len(df) |-> df[i].date.v]
    ELSE [i \in 1..Len(df) |-> i - 1]

\* dropna: the (date, value) pairs of the rows whose value is a number
RECURSIVE CleanFrom(_, _, _)
CleanFrom(df, dates, i) ==
    IF i > Len(df) THEN <<>>
    ELSE (IF df[i].value.t = "num"
          THEN <<[x |-> dates[i], y |-> df[i].value.v]>>
          ELSE <<>>) \o CleanFrom(df, dates, i + 1)

CleanRows(df) == CleanFrom(df, DateNumbers(df), 1)

SumX(c) == SumOver([i \in 1..Len(c) |-> c[i].x], 1..Len(c))
SumY(c) == SumOver([i \in 1..Len(c) |-> c[i].y], 1..Len(c))
SumXX(c) == SumOver([i \in 1..Len(c) |-> c[i].x * c[i].x], 1..Len(c))
SumXY(c) == SumOver([i \in 1..Len(c) |-> c[i].x * c[i].y], 1..Len(c))

\* least squares: the slope is SlopeNum / SlopeDen
SlopeDen(c) == Len(c) * SumXX(c) - SumX(c) * SumX(c)
SlopeNum(c) == Len(c) * SumXY(c) - SumX(c) * SumY(c)

\* model.predict at x, in thousandths; a constant date column gives the mean
Predict(c, x) ==
    IF SlopeDen(c) = 0
    THEN (SumY(c) * 1000) \div Len(c)
    ELSE ((SumY(c) * SlopeDen(c) + SlopeNum(c) * (Len(c) * x - SumX(c))) * 1000)
             \div (Len(c) * SlopeDen(c))

\* the largest k in lo..hi with k * k <= n, by bisection
RECURSIVE SqrtIn(_, _, _)
SqrtIn(n, lo, hi) ==
    IF lo >= hi THEN lo
    ELSE IF ((lo + hi + 1) \div 2) * ((lo + hi + 1) \div 2) <= n
    THEN SqrtIn(n, (lo + hi + 1) \div 2, hi)
    ELSE SqrtIn(n, lo, (lo + hi + 1) \div 2 - 1)

\* the largest k with k * k <= n
ISqrt(n) == SqrtIn(n, 0, IF n < 46340 THEN n ELSE 46340)

SquaredResidual(c, i) ==
    (c[i].y * 1000 - Predict(c, c[i].x)) * (c[i].y * 1000 - Predict(c, c[i].x))

\* np.std(residuals), in thousandths
StdError(c) ==
    ISqrt(SumOver([i \in 1..Len(c) |-> SquaredResidual(c, i)], 1..Len(c)) \div Len(c))

\* one row of result_df, for period i (1-based)
PredictionRecord(c, i) ==
    [period |-> "Periode " \o NatText(i),
     prediction |-> Predict(c, c[Len(c)].x + i),
     confidence_low |-> Predict(c, c[Len(c)].x + i) - (196 * StdError(c)) \div 100,
     confidence_high |-> Predict(c, c[Len(c)].x + i) + (196 * StdError(c)) \div 100]

ForecastFailed(msg) == [success |-> FALSE, error |-> msg, forecast |-> None]

LinearFitted(c, periods) ==
    [success |-> TRUE, error |-> "",
     forecast |-> Some([data_points |-> Len(c),
                        forecast_periods |-> periods,
                        predictions |-> [i \in 1..periods |-> PredictionRecord(c, i)],
                        method |-> "linear_regression"])]

simple_linear_forecast(df, periods) ==
    IF Len(df) < MIN_DATA_POINTS
    THEN ForecastFailed("Minimum " \o NatText(MIN_DATA_POINTS)
                            \o " data points required, got " \o NatText(Len(df)))
    ELSE IF Len(CleanRows(df)) < MIN_DATA_POINTS
    THEN ForecastFailed("After cleaning, only " \o NatText(Len(CleanRows(df)))
                            \o " valid data points")
    ELSE LinearFitted(CleanRows(df), periods)

\* enhanced_forecast from the rows on, with config.DEFAULT_FORECAST_PERIODS
\* set to configured; Prophet is chosen only from 12 rows on
enhanced_forecast(df, configured) ==
    IF Len(df) < MIN_DATA_POINTS
    THEN ForecastFailed("Insufficient data: " \o NatText(Len(df)) \o " rows")
    ELSE simple_linear_forecast(df, configured)

\* forecast_agent_node_basic from the rows on
basic_forecast(df) ==
    IF Len(df) < MIN_DATA_POINTS
    THEN ForecastFailed("Data tidak cukup untuk forecasting. Minimal "
                            \o NatText(MIN_DATA_POINTS) \o " baris, dapat "
                            \o NatText(Len(df)))
    ELSE simple_linear_forecast(df, 3)

MaxRows == 4

\* the date columns of n rows in the order of ORDER BY date_col: consecutive
\* years, years with a repeat and a gap, one year throughout, and years
\* followed by a text that is no number
FcDates(n) ==
    {[i \in 1..n |-> Num(2018 + i)],
     [i \in 1..n |-> Num(2019 + 2 * (i \div 2))],
     [i \in 1..n |-> Num(2020)],
     [i \in 1..n |-> IF i < n THEN Num(2018 + i) ELSE TextCell]}

FcValues == {Num(10), Num(12), Num(14), Null}

Histories ==
    UNION {{[i \in 1..n |-> [date |-> d[i], value |-> v[i]]] :
               d \in FcDates(n), v \in [1..n -> FcValues]} : n \in 0..MaxRows}

ForecastCallers == {"simple_linear_forecast", "enhanced", "basic"}

InitForecast ==
    /\ fc_df \in Histories
    /\ fc_caller \in ForecastCallers
    /\ fc_periods \in ConfiguredPeriods
    /\ fc_result = None
    /\ ValidatorIdle
    /\ SelectorIdle
    /\ InjectorIdle
    /\ RetrievalIdle
    /\ WorkflowIdle
    /\ LoaderIdle
    /\ DetectIdle

ForecastCall ==
    /\ fc_result = None
    /\ fc_result' = Some(CASE fc_caller = "enhanced" -> enhanced_forecast(fc_df, fc_periods)
                           [] fc_caller = "basic" -> basic_forecast(fc_df)
                           [] OTHER -> simple_linear_forecast(fc_df, fc_periods))
    /\ UNCHANGED <<fc_df, fc_caller, fc_periods, vvars, svars, ivars, rvars, wvars, lvars, dvars>>

NextForecast == ForecastCall

SpecForecast == InitForecast /\ [][NextForecast]_vars

(***************************************************************************)
(* A run of a compiled workflow: graph.invoke(initial_state).              *)
(***************************************************************************)
Workflows == {"basic", "enhanced", "hybrid"}

Questions == {
    <<"h","a","l","o">>,
    <<"i","n","f","l","a","s","i">>,
    <<"b","e","r","a","p","a"," ","x","y","z">>,
    <<"B","e","r","a","p","a"," ","I","n","f","l","a","s","i">>,
    <<"p","r","e","d","i","k","s","i"," ","p","d","b">>,
    <<"P","r","e","d","i","k","s","i"," ","d","a","t","a"," ","p","d","b">>,
    <<"p","r","o","y","e","k","s","i"," ","p","e","n","d","u","d","u","k">>,
    <<"d","a","t","a"," ","j","a","k","a","r","t","a">>,
    <<"t","r","e","n"," ","t","a","h","u","n">> }

\* the caller's region (main.py --region, any text): none, a region code, a
\* text with two dashes in it
Regions == {None, Some(<<"3","2">>), Some(<<"3","2","-","-">>)}

\* the initial state main.py builds for a question
FreshState(q, region) ==
    [user_input |-> q,
     region |-> region,
     intent |-> None,
     needs_clarification |-> FALSE,
     clarification_question |-> None,
     clarification_response |-> None,
     relevant_tables |-> <<>>,
     selected_table |-> None,
     table_metadata |-> None,
     selection_confidence |-> None,
     selection_reason |-> None,
     raw_sql |-> None,
     validated_sql |-> None,
     execution_result |-> None,
     forecast_result |-> None,
     final_answer |-> None,
     error |-> None,
     next_node |-> None]

\* what a user can type as the answer to a disambiguation question
Responses == {<<" ","2"," ">>, <<"7">>, <<"x">>, <<"SUPERSCRIPT TWO">>}

\* the state in which a basic run on q ends when it asks which table is meant
AskedState(q, region, order) ==
    clarify_agent_node(
        metadata_retriever_node_basic(
            router_node(FreshState(q, region)).st,
            find_relevant_tables(q, 3, order)).st,
        [success |-> FALSE, content |-> "", error |-> ""], TRUE).st

\* the states a caller hands to invoke: a fresh one, a fresh one that
\* carries an answer, or the state of a run that asked, with the answer
StatesFrom(fresh_state, asked_state) ==
    {fresh_state}
    \cup {[fresh_state EXCEPT !.clarification_response = Some(a)] : a \in Responses}
    \cup {[asked_state EXCEPT !.clarification_response = Some(a)] :
             a \in {b \in Responses : asked_state.needs_clarification}}

CallerStates(q, region, order) ==
    StatesFrom(FreshState(q, region), AskedState(q, region, order))

\* answers of call_sql_llm
SqlReplies == {
    [success |-> FALSE, content |-> <<>>, error |-> "Request timed out."],
    [success |-> TRUE,  error |-> "", content |-> <<"S","E","L","E","C","T"," ","*"," ","F","R","O","M"," ","i","n","f","l","a","s","i">>],
    [success |-> TRUE,  error |-> "", content |->
        <<"~","~","~","s","q","l"," ","S","E","L","E","C","T"," ","t","a","h","u","n"," ","F","R","O","M"," ","i","n","f","l","a","s","i"," ","W","H","E","R","E"," ","t","a","h","u","n"," ","="," ","2","0","2","0",";"," ","~","~","~">>],
    [success |-> TRUE,  error |-> "", content |->
        <<"s","e","l","e","c","t"," ","*"," ","f","r","o","m"," ","i","n","f","l","a","s","i"," ","w","h","e","r","e"," ","k","o","d","e","_","w","i","l","a","y","a","h"," ","l","i","k","e"," ","'","3","2","%","'"," ","l","i","m","i","t"," ","3">>],
    [success |-> TRUE,  error |-> "", content |-> <<"S","E","L","E","C","T"," ","*"," ","F","R","O","M"," ","i","n","f","l","a","s","i"," ","O","R","D","E","R"," ","B","Y"," ","t","a","h","u","n",";">>],
    [success |-> TRUE,  error |-> "", content |-> <<"D","R","O","P"," ","T","A","B","L","E"," ","i","n","f","l","a","s","i">>],
    [success |-> TRUE,  error |-> "", content |-> <<"S","E","L","E","C","T"," ","*"," ","F","R","O","M"," ","i","n","f","l","a","s","i"," ","W","H","E","R","E"," ","t","a","h","u","n"," ","="," ","2","0","2","0"," ","O","R","D","E","R"," ","B","Y"," ","k","o","d","e","_","w","i","l","a","y","a","h">>],
    [success |-> TRUE,  error |-> "", content |-> <<"S","E","L","E","C","T"," ","l","i","m","i","t","_","a","t","a","s"," ","F","R","O","M"," ","i","n","f","l","a","s","i">>],
    [success |-> TRUE,  error |-> "", content |-> <<"S","E","L","E","C","T"," ","1"," ","F","R","O","M"," ","a",";"," ","S","E","L","E","C","T"," ","2"," ","F","R","O","M"," ","b">>] }

\* answers of SQLExecutor.execute
DbResults == {
    [success |-> FALSE, row_count |-> 0, error |-> "SQL execution error: no such table: inflasi"],
    [success |-> TRUE,  row_count |-> 0, error |-> ""],
    [success |-> TRUE,  row_count |-> 2, error |-> ""] }

\* what the forecast agent's query and fit come back with
ForecastOutcomes == {
    [success |-> FALSE, row_count |-> 0, fit_ok |-> FALSE,
     error |-> "SQL execution error: no such table: pdb"],
    [success |-> TRUE,  row_count |-> 2, fit_ok |-> FALSE, error |-> ""],
    [success |-> TRUE,  row_count |-> 5, fit_ok |-> FALSE,
     error |-> "After cleaning, only 2 valid data points"],
    [success |-> TRUE,  row_count |-> 5, fit_ok |-> TRUE, error |-> ""] }

\* answers of call_user_llm: a failed call, an empty content, a text
UserReplies == {
    [success |-> FALSE, content |-> "", error |-> "Request timed out."],
    [success |-> TRUE,  content |-> "", error |-> ""],
    [success |-> TRUE,  content |-> "Berdasarkan informasi terkini ...", error |-> ""] }

\* the fixed edges with the SQL executor wired to the forecast agent
FixedEdge_executor_to_forecast ==
    [sql_agent |-> "sql_executor",
     sql_executor |-> "forecast_agent",
     forecast_agent |-> "response_formatter",
     response_formatter |-> "end",
     error_handler |-> "end",
     end |-> "END"]

\* the fixed edges of the graph
FixedEdge ==
    [sql_agent |-> "sql_executor",
     sql_executor |-> "response_formatter",
     forecast_agent |-> "response_formatter",
     response_formatter |-> "end",
     error_handler |-> "end",
     end |-> "END"]

Init ==
    /\ wf \in Workflows
    /\ table_order \in TableOrders
    /\ \E q \in Questions : \E region \in Regions :
          state \in CallerStates(q, region, table_order)
    /\ fresh = (state = FreshState(state.user_input, state.region))
    /\ pc = "router"
    /\ trace = <<>>
    /\ events = <<>>
    /\ ValidatorIdle
    /\ SelectorIdle
    /\ InjectorIdle
    /\ RetrievalIdle
    /\ ForecastIdle
    /\ LoaderIdle
    /\ DetectIdle

\* the node that runs after node name has returned st
Successor(name, st) ==
    CASE name = "router" -> route_after_router(st)
      [] name = "metadata_retriever" -> route_after_metadata(st)
      [] name = "planner" -> route_after_planner(st)
      [] name = "clarify_agent" -> route_after_clarify(st)
      [] OTHER -> FixedEdge[name]

StepFailed(r) == ~r.raised /\ r.st.next_node = Some("error_handler")

\* node name has run and returned r (or raised)
Step(name, r) ==
    /\ state' = r.st
    /\ events' = events \o r.calls
    /\ trace' = Append(trace, [node |-> name,
                               failed |-> StepFailed(r),
                               error |-> IF StepFailed(r) THEN r.st.error ELSE None])
    /\ pc' = IF r.raised THEN "raised" ELSE Successor(name, r.st)
    /\ UNCHANGED <<wf, table_order, fresh, vvars, svars, ivars, rvars, fvars, lvars, dvars>>

RunRouter ==
    /\ pc = "router"
    /\ Step("router", router_node(state))

RunMetadataRetriever ==
    /\ pc = "metadata_retriever"
    /\ IF wf = "basic"
       THEN Step("metadata_retriever",
                 metadata_retriever_node_basic(state,
                     find_relevant_tables(state.user_input, 3, table_order)))
       ELSE \E found \in {find_relevant_tables(state.user_input, 5, table_order)} :
                \E reply \in LLMReplies(Len(found)) :
                    Step("metadata_retriever",
                         enhanced_metadata_retriever_node(state, found, reply))

RunPlanner ==
    /\ pc = "planner"
    /\ Step("planner", planner_node(state))

RunSqlAgent ==
    /\ pc = "sql_agent"
    /\ \E llm \in SqlReplies :
          IF wf = "basic"
          THEN Step("sql_agent", sql_agent_node_basic(state, llm))
          ELSE Step("sql_agent", enhanced_sql_agent_node(state, llm))

RunSqlExecutor ==
    /\ pc = "sql_executor"
    /\ \E db \in DbResults : Step("sql_executor", sql_executor_node(state, db))

RunForecastAgent ==
    /\ pc = "forecast_agent"
    /\ \E fc \in ForecastOutcomes :
          IF wf = "enhanced"
          THEN Step("forecast_agent", enhanced_forecast_agent_node(state, fc))
          ELSE Step("forecast_agent", forecast_agent_node_basic(state, fc))

RunClarifyAgent ==
    /\ pc = "clarify_agent"
    /\ \E llm \in UserReplies : \E web_ok \in BOOLEAN :
          Step("clarify_agent", clarify_agent_node(state, llm, web_ok))

RunResponseFormatter ==
    /\ pc = "response_formatter"
    /\ \E llm \in UserReplies : \E markdown_ok \in BOOLEAN :
          Step("response_formatter", response_formatter_node(state, llm, markdown_ok))

\* no edge and no routing function leads to error_handler, so this step is
\* enabled in no state of a run and Next does not list it
RunErrorHandler ==
    /\ pc = "error_handler"
    /\ Step("error_handler", error_handler_node(state))

RunEnd ==
    /\ pc = "end"
    /\ Step("end", end_node(state))

Next ==
    \/ RunRouter
    \/ RunMetadataRetriever
    \/ RunPlanner
    \/ RunSqlAgent
    \/ RunSqlExecutor
    \/ RunForecastAgent
    \/ RunClarifyAgent
    \/ RunResponseFormatter
    \/ RunEnd

Spec == Init /\ [][Next]_vars

(***************************************************************************)
(* The error handler on its own: no edge of the graph leads to it, so it   *)
(* is started here on a context of any content.                            *)
(***************************************************************************)
ErrorTexts == {None, Some(""), Some("SQL generation failed: Request timed out."),
               Some("No table selected")}

ErrorContexts ==
    {[FreshState(q, None) EXCEPT !.error = e, !.selected_table = tb, !.final_answer = a] :
        q \in Questions \cup {<<>>},
        e \in ErrorTexts,
        tb \in {None} \cup {Some(x) : x \in Tables},
        a \in {None, Some("Saya menemukan 2 tabel")}}

InitErrorHandler ==
    /\ wf \in Workflows
    /\ table_order \in TableOrders
    /\ state \in ErrorContexts
    /\ fresh = FALSE
    /\ pc = "error_handler"
    /\ trace = <<>>
    /\ events = <<>>
    /\ ValidatorIdle
    /\ SelectorIdle
    /\ InjectorIdle
    /\ RetrievalIdle
    /\ ForecastIdle
    /\ LoaderIdle
    /\ DetectIdle

NextErrorHandler ==
    \/ RunErrorHandler
    \/ RunEnd

SpecErrorHandler == InitErrorHandler /\ [][NextErrorHandler]_vars

(***************************************************************************)
(* The table lookup on its own: find_relevant_tables for a question, a     *)
(* top_k and a catalog that holds some of the tables, in some load order.  *)
(***************************************************************************)
\* the catalogs: every choice of tables in every load order, the empty one too
CatalogOrders ==
    UNION {{o \in [1..n -> Tables] : \A i, j \in 1..n : o[i] = o[j] => i = j} :
              n \in 0..Cardinality(Tables)}

TopKs == {1, 2, 3, 5}

\* the questions put to the lookup: those of the runs, one with two words
\* of the same column name, and one with a word that only begins like a
\* column name
RetrievalQuestions ==
    Questions \cup {<<"n","i","l","a","i"," ","i","n","f","l","a","s","i">>,
                    <<"d","a","t","a"," ","t","a","h","u","n","a","n">>}

InitRetrieval ==
    /\ rt_query \in RetrievalQuestions
    /\ rt_top_k \in TopKs
    /\ rt_order \in CatalogOrders
    /\ rt_result = None
    /\ ValidatorIdle
    /\ SelectorIdle
    /\ InjectorIdle
    /\ ForecastIdle
    /\ WorkflowIdle
    /\ LoaderIdle
    /\ DetectIdle

RetrieveCall ==
    /\ rt_result = None
    /\ rt_result' = Some(find_relevant_tables(rt_query, rt_top_k, rt_order))
    /\ UNCHANGED <<rt_query, rt_top_k, rt_order, vvars, svars, ivars, fvars, wvars, lvars, dvars>>

NextRetrieval == RetrieveCall

SpecRetrieval == InitRetrieval /\ [][NextRetrieval]_vars

(***************************************************************************)
(* MetadataManager.load_all_metadata called by threads that share one      *)
(* manager.  A call checks the cache, reads the directory, reads the files *)
(* one by one into a dictionary of its own, stores the dictionary in the   *)
(* cache and returns it; another thread can run between any two of these.  *)
(* A catalog is the set of its table names.                                *)
(***************************************************************************)
Threads == {1, 2}
\* how many calls a thread makes
MaxCalls == 2

\* the metadata directory: missing, without JSON files, with two files, with
\* a file json.load rejects
MdStores == {
    [exists |-> FALSE, files |-> <<>>],
    [exists |-> TRUE,  files |-> <<>>],
    [exists |-> TRUE,  files |-> <<[table |-> "inflasi", ok |-> TRUE],
                                   [table |-> "pdb", ok |-> TRUE]>>],
    [exists |-> TRUE,  files |-> <<[table |-> "inflasi", ok |-> FALSE],
                                   [table |-> "pdb", ok |-> TRUE]>>] }

\* a thread that has not called yet
NoCall ==
    [pc |-> "idle", force_reload |-> FALSE, metadata |-> {}, next |-> 0,
     result |-> None, read_store |-> FALSE, after_load |-> FALSE, n |-> 0]

InitLoader ==
    /\ md_store \in MdStores
    /\ md_cache = None
    /\ md_loaded = FALSE
    /\ md_calls = [p \in Threads |-> NoCall]
    /\ ValidatorIdle
    /\ SelectorIdle
    /\ InjectorIdle
    /\ RetrievalIdle
    /\ ForecastIdle
    /\ WorkflowIdle
    /\ DetectIdle

\* thread p calls load_all_metadata(force_reload)
LoadStart(p) ==
    /\ md_calls[p].pc \in {"idle", "done"}
    /\ md_calls[p].n < MaxCalls
    /\ \E force_reload \in BOOLEAN :
          md_calls' = [md_calls EXCEPT ![p] =
                          [NoCall EXCEPT !.pc = "check",
                                         !.force_reload = force_reload,
                                         !.after_load = md_loaded,
                                         !.n = md_calls[p].n + 1]]
    /\ UNCHANGED <<md_store, md_cache, md_loaded, vvars, svars, ivars, rvars, fvars, wvars, dvars>>

\* if self._metadata_cache is not None and not force_reload
LoadCheck(p) ==
    /\ md_calls[p].pc = "check"
    /\ md_calls' = [md_calls EXCEPT ![p].pc =
                       IF md_cache # None /\ ~md_calls[p].force_reload
                       THEN "return_cache" ELSE "open_dir"]
    /\ UNCHANGED <<md_store, md_cache, md_loaded, vvars, svars, ivars, rvars, fvars, wvars, dvars>>

\* return self._metadata_cache
LoadReturnCache(p) ==
    /\ md_calls[p].pc = "return_cache"
    /\ md_calls' = [md_calls EXCEPT ![p].pc = "done", ![p].result = md_cache]
    /\ UNCHANGED <<md_store, md_cache, md_loaded, vvars, svars, ivars, rvars, fvars, wvars, dvars>>

\* metadata = {}; the directory is missing or holds no JSON file: return
\* metadata; else start on the files
LoadOpenDir(p) ==
    /\ md_calls[p].pc = "open_dir"
    /\ IF ~md_store.exists \/ md_store.files = <<>>
       THEN /\ md_calls' = [md_calls EXCEPT ![p].pc = "done",
                                            ![p].read_store = TRUE,
                                            ![p].result = Some({})]
            /\ md_loaded' = TRUE
       ELSE /\ md_calls' = [md_calls EXCEPT ![p].pc = "read_file",
                                            ![p].read_store = TRUE,
                                            ![p].next = 1]
            /\ UNCHANGED md_loaded
    /\ UNCHANGED <<md_store, md_cache, vvars, svars, ivars, rvars, fvars, wvars, dvars>>

\* one turn of the loop over the files: metadata[table_name] = json.load(f),
\* a file that cannot be read is logged and left out
LoadReadFile(p) ==
    /\ md_calls[p].pc = "read_file"
    /\ md_calls' = [md_calls EXCEPT
                       ![p].metadata =
                           IF md_store.files[md_calls[p].next].ok
                           THEN md_calls[p].metadata
                                    \cup {md_store.files[md_calls[p].next].table}
                           ELSE md_calls[p].metadata,
                       ![p].next = md_calls[p].next + 1,
                       ![p].pc = IF md_calls[p].next = Len(md_store.files)
                                 THEN "publish" ELSE "read_file"]
    /\ UNCHANGED <<md_store, md_cache, md_loaded, vvars, svars, ivars, rvars, fvars, wvars, dvars>>

\* self._metadata_cache = metadata
LoadPublish(p) ==
    /\ md_calls[p].pc = "publish"
    /\ md_cache' = Some(md_calls[p].metadata)
    /\ md_calls' = [md_calls EXCEPT ![p].pc = "return_new"]
    /\ UNCHANGED <<md_store, md_loaded, vvars, svars, ivars, rvars, fvars, wvars, dvars>>

\* return metadata
LoadReturnNew(p) ==
    /\ md_calls[p].pc = "return_new"
    /\ md_calls' = [md_calls EXCEPT ![p].pc = "done",
                                    ![p].result = Some(md_calls[p].metadata)]
    /\ md_loaded' = TRUE
    /\ UNCHANGED <<md_store, md_cache, vvars, svars, ivars, rvars, fvars, wvars, dvars>>

NextLoader ==
    \E p \in Threads :
        \/ LoadStart(p)
        \/ LoadCheck(p)
        \/ LoadReturnCache(p)
        \/ LoadOpenDir(p)
        \/ LoadReadFile(p)
        \/ LoadPublish(p)
        \/ LoadReturnNew(p)

SpecLoader == InitLoader /\ [][NextLoader]_vars

(***************************************************************************)
(* The choice of the date and the value column on its own, made by both    *)
(* forecast paths on the columns of one table.                             *)
(***************************************************************************)
\* the columns a table can have
DetectColumns == {
    [name |-> <<"t","a","h","u","n">>, type |-> <<"I","N","T","E","G","E","R">>],
    [name |-> <<"n","i","l","a","i","_","i","n","f","l","a","s","i">>, type |-> <<"f","l","o","a","t">>],
    [name |-> <<"k","o","d","e","_","w","i","l","a","y","a","h">>, type |-> <<"t","e","x","t">>],
    [name |-> <<"t","g","l">>, type |-> <<"d","a","t","e">>],
    [name |-> <<"n","i","l","a","i","_","t","a","h","u","n","a","n">>, type |-> <<>>],
    [name |-> <<"x">>, type |-> <<>>] }

\* how many columns a table has at most
MaxColumns == 3

\* the tables: every choice of up to MaxColumns different columns, in every order
DetectTables ==
    UNION {{c \in [1..n -> DetectColumns] : \A i, j \in 1..n : c[i] = c[j] => i = j} :
              n \in 0..MaxColumns}

InitDetect ==
    /\ dt_columns \in DetectTables
    /\ dt_result = None
    /\ ValidatorIdle
    /\ SelectorIdle
    /\ InjectorIdle
    /\ RetrievalIdle
    /\ ForecastIdle
    /\ LoaderIdle
    /\ WorkflowIdle

\* detect_time_series_columns, and the heuristic of forecast_agent_node_basic,
\* which is not reached for a table without columns
DetectCall ==
    /\ dt_result = None
    /\ dt_result' = Some([enhanced |-> detect_time_series_columns(dt_columns),
                          basic |-> IF dt_columns = <<>> THEN None
                                    ELSE Some([date_column |-> BasicDate(dt_columns),
                                               value_column |-> BasicValue(dt_columns)])])
    /\ UNCHANGED <<dt_columns, vvars, svars, ivars, rvars, fvars, lvars, wvars>>

NextDetect == DetectCall

SpecDetect == InitDetect /\ [][NextDetect]_vars

(***************************************************************************)
(* Claims about validate_sql (SpecValidator)                               *)
(***************************************************************************)
\* the statement, lower-cased and trimmed, begins with the letters select
BeginsWithSelect(s) == StartsWith(Strip(Lower(s)), S_select)

\* the denylisted keywords that occur in the statement as whole words
KeywordWords(s) ==
    {k \in DOMAIN FORBIDDEN_KEYWORDS : ContainsWord(Lower(s), FORBIDDEN_KEYWORDS[k])}

\* the statement has a FROM clause: the keyword FROM as a word of its own
HasFromClause(s) == ContainsWord(Lower(s), S_from)

KeywordReason(k) == "Contains forbidden keyword: " \o Join(FORBIDDEN_KEYWORDS[k])

\* the spec's scenario: SELECT * FROM t; DROP TABLE t;
ScenarioTwoStatements ==
    <<"S","E","L","E","C","T"," ","*"," ","F","R","O","M"," ","t",
      ";"," ","D","R","O","P"," ","T","A","B","L","E"," ","t",";">>

\* C5: validate_sql answers is_valid = TRUE only for a statement that begins
\* with SELECT, holds no denylisted keyword as a whole word, matches no
\* dangerous pattern, has a FROM clause and parses as a single statement.
C5_ValidOnlyIfEveryRuleHolds ==
    (validation # None /\ validation[1].is_valid) =>
        /\ BeginsWithSelect(sql)
        /\ KeywordWords(sql) = {}
        /\ ~FORBIDDEN_PATTERNS(Lower(sql))
        /\ HasFromClause(sql)
        /\ StatementCount(sql) <= 1

C7_KeywordReasonIffWholeWord ==
    validation # None =>
        ((KeywordWords(sql) # {})
            <=> (\E k \in DOMAIN FORBIDDEN_KEYWORDS :
                    validation[1].reason = KeywordReason(k)))

\* C7 amended: for a statement that begins with SELECT, the rejection names a
\* keyword exactly when a denylisted keyword occurs as a whole word, and the
\* keyword named is one that does; a keyword that occurs only inside a
\* larger identifier leaves a SELECT that passes the other rules accepted.
C7_KeywordReasonIffWholeWordInSelect ==
    (validation # None /\ BeginsWithSelect(sql)) =>
        /\ (KeywordWords(sql) # {})
               <=> (\E k \in DOMAIN FORBIDDEN_KEYWORDS :
                       validation[1].reason = KeywordReason(k))
        /\ \A k \in DOMAIN FORBIDDEN_KEYWORDS :
               validation[1].reason = KeywordReason(k) => k \in KeywordWords(sql)
        /\ (/\ KeywordWords(sql) = {}
            /\ ~FORBIDDEN_PATTERNS(Lower(sql))
            /\ Contains(Lower(sql), S_from)
            /\ StatementCount(sql) <= 1) => validation[1].is_valid

\* update occurs, only inside update_ts or last_updated, and the SELECT is accepted
C7_Witness ==
    /\ validation # None
    /\ BeginsWithSelect(sql)
    /\ Contains(Lower(sql), <<"u","p","d","a","t","e">>)
    /\ KeywordWords(sql) = {}
    /\ validation[1].is_valid

C9_ShortcutsWithoutModelCall ==
    selection # None =>
        /\ Len(candidate_tables) = 0 =>
               /\ selection[1].selected = None
               /\ selection[1].confidence.v = 0
               /\ ~selection[1].llm_called
        /\ Len(candidate_tables) = 1 =>
               /\ selection[1].selected = Some(candidate_tables[1])
               /\ selection[1].confidence = Conf(10)
               /\ ~selection[1].llm_called

C9_Witness == selection # None /\ Len(candidate_tables) = 1

\* C10: with two or more candidates, a failed call, a reply without a
\* parseable JSON object or an index that is not an integer in 1..n gives the
\* candidate with the highest relevance score, with confidence 0.3.
C10_FallbackOnUnusableReply ==
    (/\ selection # None
     /\ Len(candidate_tables) >= 2
     /\ \/ llm_reply.kind \in {"fail", "no_json", "bad_json"}
        \/ ~(llm_reply.index.t = "int"
               /\ llm_reply.index.v \in 1..Len(candidate_tables)))
    => /\ selection[1].selected = Some(MaxByScore(candidate_tables))
       /\ selection[1].confidence = Conf(3)

(***************************************************************************)
(* Claims about a run of the compiled workflow (Spec)                      *)
(***************************************************************************)
\* the steps that give up for want of a table, a statement, a valid
\* statement, a result or a forecast
GivingUpNodes == {"sql_agent", "sql_executor", "forecast_agent"}

\* C1: whenever a step sets the error field because it cannot proceed, the
\* error_handler step is the next step that runs (and so runs before end).
C1_ErrorHandlerRunsNext ==
    \A i \in 1..Len(trace) :
        (trace[i].failed /\ trace[i].node \in GivingUpNodes) =>
            IF i < Len(trace)
            THEN trace[i + 1].node = "error_handler"
            ELSE pc = "error_handler"

\* C2: when a run started from a fresh context has passed the end step,
\* final_answer is a non-empty string.
C2_FinalAnswerNonEmpty ==
    (fresh /\ pc = "END") => TruthyText(state.final_answer)

\* the retriever has looked for tables, for a data-query or forecast intent,
\* and found none
NoCandidateFound ==
    /\ \E i \in 1..Len(trace) : trace[i].node = "metadata_retriever"
    /\ state.intent \in {Some("sql"), Some("forecast")}
    /\ state.relevant_tables = <<>>

\* C3: when table resolution finds no candidate, the run goes to the
\* clarify/web step, which searches the web for the raw question; the SQL
\* agent, the forecast agent and the error handler do not run.
C3_NoCandidateGoesToWebSearch ==
    NoCandidateFound =>
        /\ \A i \in 1..Len(trace) :
               trace[i].node \notin {"sql_agent", "forecast_agent", "error_handler"}
        /\ trace[Len(trace)].node = "metadata_retriever" => pc = "clarify_agent"
        /\ pc = "END" => \E k \in 1..Len(events) :
                             /\ events[k].kind = "web_search"
                             /\ events[k].arg = state.user_input

ValidationFailed == "SQL validation failed: "

\* step i is the SQL agent giving up because validate_sql rejected the statement
RejectedAt(i) ==
    /\ trace[i].node = "sql_agent"
    /\ trace[i].failed
    /\ Len(trace[i].error[1]) > Len(ValidationFailed)
    /\ SubSeq(trace[i].error[1], 1, Len(ValidationFailed)) = ValidationFailed

\* the reason validate_sql gave at step i
RejectionReason(i) ==
    SubSeq(trace[i].error[1], Len(ValidationFailed) + 1, Len(trace[i].error[1]))

\* C4: when validate_sql rejects the generated statement, the run ends with
\* the error field and the final answer carrying the validator's reason, and
\* no second statement is asked for.
C4_RejectionReasonReported ==
    pc = "END" =>
        \A i \in 1..Len(trace) :
            RejectedAt(i) =>
                /\ state.error = trace[i].error
                /\ TruthyText(state.final_answer)
                /\ StrContains(state.final_answer[1], RejectionReason(i))
                /\ Cardinality({k \in 1..Len(events) : events[k].kind = "sql_llm"}) = 1

\* C11: with two or more candidates, whatever the language model answers,
\* select_best_table returns (it raises nothing) a selected table that is one
\* of the candidates, and for a reply naming a valid 1-based index i it is
\* the i-th candidate.
C11_SelectionIsACandidate ==
    (selection # None /\ Len(candidate_tables) >= 2) =>
        /\ selection[1].selected # None
        /\ \E i \in 1..Len(candidate_tables) :
               selection[1].selected = Some(candidate_tables[i])
        /\ (/\ llm_reply.kind = "json"
            /\ llm_reply.index.t = "int"
            /\ llm_reply.index.v \in 1..Len(candidate_tables))
           => selection[1].selected = Some(candidate_tables[llm_reply.index.v])

\* the reply named the second of several candidates, which is not the
\* highest-scoring one, and the call has returned
C11_Witness ==
    /\ selection # None
    /\ Len(candidate_tables) >= 2
    /\ llm_reply.kind = "json"
    /\ llm_reply.index = JInt(2)
    /\ candidate_tables[2] # MaxByScore(candidate_tables)
    /\ selection[1].selected = Some(candidate_tables[2])

(***************************************************************************)
(* Claims about inject_region_filter (SpecInjector)                        *)
(***************************************************************************)
\* how often the restriction access_column LIKE 'region%' occurs in s,
\* compared case-insensitively
PredicateCount(s, access_column, region) ==
    Cardinality({i \in 1..Len(s) :
                    MatchAt(Lower(s), Lower(RegionPredicate(access_column, region)), i)})

\* C12: injecting the region filter a second time changes nothing, and for
\* an access column and a region the result holds the restriction on the
\* access column exactly once.
C12_InjectionIdempotentAndSingle ==
    inj_result # None =>
        /\ inj_result[1].twice = inj_result[1].once
        /\ (inj_column # <<>> /\ inj_region # <<>>) =>
               PredicateCount(inj_result[1].once, inj_column, inj_region) = 1

(***************************************************************************)
(* Claims about the SQL agent's post-processing (Spec)                     *)
(***************************************************************************)
\* the LIMIT clauses of a statement: the places where the keyword LIMIT
\* stands as a word of its own
LimitClauses(s) ==
    {i \in 1..Len(s) :
        /\ MatchAt(Lower(s), S_limit, i)
        /\ (i = 1 \/ ~IsWordChar(s[i - 1]))
        /\ (i + Len(S_limit) > Len(s) \/ ~IsWordChar(s[i + Len(S_limit)]))}

\* C13: the statement the SQL agent stores in validated_sql holds exactly
\* one LIMIT clause, whether or not the generated statement had one and
\* whether or not a region restriction was injected.
C13_ExactlyOneLimitClause ==
    TruthyChars(state.validated_sql) =>
        Cardinality(LimitClauses(state.validated_sql[1])) = 1

(***************************************************************************)
(* Claims about the router and the planner (Spec)                          *)
(***************************************************************************)
HasForecastKeyword(q) == \E keyword \in forecast_keywords : Contains(Lower(q), keyword)
HasSqlKeyword(q) == \E keyword \in sql_keywords : Contains(Lower(q), keyword)

\* C14: once the router has run, intent is forecast when the lower-cased
\* question holds a forecast keyword (also when it holds a data-query keyword
\* as well), else sql when it holds a data-query keyword, else clarify.
C14_RouterIntent ==
    Len(trace) >= 1 =>
        /\ state.intent \in {Some("forecast"), Some("sql"), Some("clarify")}
        /\ HasForecastKeyword(state.user_input) => state.intent = Some("forecast")
        /\ (~HasForecastKeyword(state.user_input) /\ HasSqlKeyword(state.user_input))
               => state.intent = Some("sql")
        /\ (~HasForecastKeyword(state.user_input) /\ ~HasSqlKeyword(state.user_input))
               => state.intent = Some("clarify")

\* the router has classified a question that holds keywords of both kinds
C14_Witness ==
    /\ Len(trace) >= 1
    /\ trace[1].node = "router"
    /\ HasForecastKeyword(state.user_input)
    /\ HasSqlKeyword(state.user_input)
    /\ state.intent = Some("forecast")

\* no table has been ranked or selected: the context holds no candidates and
\* no selected table, and the table-selection request was not made
NoTableResolution ==
    /\ state.relevant_tables = <<>>
    /\ state.selected_table = None
    /\ \A k \in 1..Len(events) : events[k].kind # "select_llm"

NodeAfter(i) == IF i < Len(trace) THEN trace[i + 1].node ELSE pc

\* C16: the step that runs after the planner is the forecast agent exactly
\* when intent is forecast, the SQL agent exactly when intent is sql, and the
\* clarify step otherwise, whatever the other fields of the context hold.
C16_PlannerDispatchesOnIntent ==
    \A i \in 1..Len(trace) :
        trace[i].node = "planner" =>
            /\ NodeAfter(i) \in {"forecast_agent", "sql_agent", "clarify_agent"}
            /\ (NodeAfter(i) = "forecast_agent") <=> (state.intent = Some("forecast"))
            /\ (NodeAfter(i) = "sql_agent") <=> (state.intent = Some("sql"))

\* the planner has sent a data query on to the SQL agent although no table
\* is selected
C16_Witness ==
    \E i \in 1..Len(trace) :
        /\ trace[i].node = "planner"
        /\ state.intent = Some("sql")
        /\ state.selected_table = None
        /\ NodeAfter(i) = "sql_agent"

(***************************************************************************)
(* Claims about a whole run (Spec)                                         *)
(***************************************************************************)
\* C17: in every state of a run started from a fresh context, at most one of
\* execution_result and forecast_result is populated.
C17_AtMostOneResult ==
    fresh => ~(state.execution_result # None /\ state.forecast_result # None)

\* a fresh run has ended with a forecast and without a query result
C17_Witness ==
    /\ fresh
    /\ pc = "END"
    /\ state.forecast_result # None
    /\ state.execution_result = None

(***************************************************************************)
(* Claims about the end of a run (Spec)                                    *)
(***************************************************************************)
\* the steps of the run so far at which node name ran
RunsOf(name) == {i \in 1..Len(trace) : trace[i].node = name}

\* the run is at a node that runs next, or it is over after the end step:
\* it has not been cut short by an exception or by a missing edge
NotAborted == pc # "raised"

\* the run is finite: only the nodes on the cycle run twice, no node more
FinitelyManySteps ==
    \A i \in 1..Len(trace) :
        Cardinality(RunsOf(trace[i].node))
            <= (IF trace[i].node \in {"clarify_agent", "planner"} THEN 2 ELSE 1)

\* the end step has run only as the last step of a run that is over
EndRunsOnceAndLast ==
    /\ \A i \in RunsOf("end") : i = Len(trace) /\ pc = "END"
    /\ pc = "END" => trace # <<>> /\ trace[Len(trace)].node = "end"

\* the steps at which the run went clarify_agent -> planner -> clarify_agent
ClarifyCycles ==
    {i \in RunsOf("clarify_agent") : /\ i + 1 <= Len(trace)
                                     /\ trace[i + 1].node = "planner"
                                     /\ NodeAfter(i + 1) = "clarify_agent"}

\* C18: every run reaches the end step after finitely many steps and runs it
\* exactly once, as its last step (the step that writes WORKFLOW_COMPLETE
\* to the audit log), and goes through the cycle clarify_agent -> planner ->
\* clarify_agent at most once
C18_EveryRunEndsOnce ==
    /\ NotAborted
    /\ FinitelyManySteps
    /\ EndRunsOnceAndLast
    /\ Cardinality(ClarifyCycles) <= 1

(***************************************************************************)
(* Claims about the requests to external services (Spec)                   *)
(***************************************************************************)
\* the requests of the run so far that are of one of the kinds
RequestsOf(kinds) == {k \in 1..Len(events) : events[k].kind \in kinds}

\* the kinds of external request: the table-selection request, the
\* SQL-generation request, the execution of a query (by the SQL executor or
\* by a forecast agent) and the web search
RequestKinds ==
    {{"select_llm"}, {"sql_llm"}, {"execute", "forecast_execute"}, {"web_search"}}

\* C19: in a run each kind of external request is issued at most once (so a
\* failed one is never issued again), and once a request has failed the
\* context's error field holds a message
C19_OneRequestPerKindFailuresRecorded ==
    \A kinds \in RequestKinds :
        /\ Cardinality(RequestsOf(kinds)) <= 1
        /\ \A k \in RequestsOf(kinds) : ~events[k].ok => TruthyText(state.error)

(***************************************************************************)
(* Claims about the basic workflow's question (Spec)                       *)
(***************************************************************************)
\* a basic run that began without an answer to a question and whose table
\* lookup found two or more candidates
SeveralCandidatesNoAnswer ==
    /\ wf = "basic"
    /\ fresh
    /\ Len(state.relevant_tables) >= 2

\* text is a question that lists the candidates l numbered 1..n
IsNumberedQuestion(text, l) ==
    /\ \A i \in 1..Len(l) :
          StrContains(text, "\n" \o NatText(i) \o ". " \o l[i].table_name \o " (")
    /\ ~StrContains(text, "\n" \o NatText(Len(l) + 1) \o ". ")
    /\ ~StrContains(text, "\n0. ")
    /\ StrContains(text, "(sebutkan nomor 1-" \o NatText(Len(l)) \o ")")

\* C20: a basic run whose table lookup finds two or more candidates, with no
\* answer to a question pending, goes from the lookup to the clarify step
\* and the end step and ends with final_answer the question that lists the
\* candidates numbered 1..n; the SQL agent and the forecast agent do not run
\* and no web search is made
C20_BasicAsksWhichTable ==
    SeveralCandidatesNoAnswer =>
        /\ pc # "raised"
        /\ \A i \in 1..Len(trace) :
               trace[i].node \notin {"sql_agent", "sql_executor", "forecast_agent"}
        /\ RequestsOf({"web_search"}) = {}
        /\ pc = "END" =>
               /\ state.final_answer = state.clarification_question
               /\ state.final_answer # None
               /\ IsNumberedQuestion(state.final_answer[1], state.relevant_tables)

\* a basic run on a question with several candidate tables has ended
C20_Witness ==
    /\ SeveralCandidatesNoAnswer
    /\ pc = "END"
    /\ Len(trace) = 4

(***************************************************************************)
(* Claims about the clarify step (Spec)                                    *)
(***************************************************************************)
\* the number a context's answer names, 0 if it carries no decimal number
AnswerNumber(s) ==
    IF s.clarification_response # None /\ IsDecimal(Strip(s.clarification_response[1]))
    THEN ToInt(Strip(s.clarification_response[1]))
    ELSE 0

\* the clarify step is about to run on an answer that names a candidate
AnswerNamesCandidate ==
    /\ pc = "clarify_agent"
    /\ AnswerNumber(state) \in 1..Len(state.relevant_tables)

\* C21: when the clarify step runs on a context whose clarification_response
\* is a decimal number k with 1 <= k <= number of candidates, it sets
\* selected_table and table_metadata to the k-th candidate, clears the
\* question, the answer and the needs_clarification flag, and the planner
\* runs next
C21_AnswerSelectsCandidate ==
    [][AnswerNamesCandidate =>
          /\ state'.selected_table
                 = Some(state.relevant_tables[AnswerNumber(state)].table_name)
          /\ state'.table_metadata
                 = Some(state.relevant_tables[AnswerNumber(state)].table_name)
          /\ state'.clarification_question = None
          /\ state'.clarification_response = None
          /\ ~state'.needs_clarification
          /\ state'.relevant_tables = state.relevant_tables
          /\ pc' = "planner"]_vars

\* the clarify step has just resolved an answer to the second candidate
C21_Witness ==
    /\ trace # <<>>
    /\ trace[Len(trace)].node = "clarify_agent"
    /\ pc = "planner"
    /\ Len(state.relevant_tables) >= 2
    /\ state.selected_table = Some(state.relevant_tables[2].table_name)

\* the message of the clarify step when no answer could be composed
SearchFailed == "Gagal menghasilkan jawaban dari Web Search."

\* the clarify step searched the web and its call of the language model,
\* which composes the answer, failed
WebAnswerFailed ==
    \E k \in RequestsOf({"web_search"}) :
        /\ k < Len(events)
        /\ events[k + 1].kind = "user_llm"
        /\ ~events[k + 1].ok

\* C22: on the clarify/web path, when the call of the language model that
\* composes the answer fails, the run goes to the end step and ends with
\* the fixed "search failed" message as its final answer
C22_SearchFailedIsTheAnswer ==
    WebAnswerFailed =>
        /\ pc \in {"end", "END"}
        /\ pc = "END" => state.final_answer = Some(SearchFailed)

(***************************************************************************)
(* Claims about the forecast (SpecForecast)                                *)
(***************************************************************************)
\* every row of the history holds a number as its value
AllValuesNumeric(df) == \A i \in 1..Len(df) : df[i].value.t = "num"

\* C23: a forecast over exactly MIN_DATA_POINTS rows (of numeric values)
\* succeeds; over one row fewer it fails with an error message that states
\* both the required minimum and the actual count
C23_MinimumRowsBoundary ==
    fc_result # None =>
        /\ (Len(fc_df) = MIN_DATA_POINTS /\ AllValuesNumeric(fc_df))
               => fc_result[1].success
        /\ Len(fc_df) = MIN_DATA_POINTS - 1 =>
               /\ ~fc_result[1].success
               /\ StrContains(fc_result[1].error, NatText(MIN_DATA_POINTS))
               /\ StrContains(fc_result[1].error, NatText(MIN_DATA_POINTS - 1))

\* the dates of the history are four-digit years in [1900, 2100]
DatesAreYears(df) ==
    /\ df # <<>>
    /\ \A i \in 1..Len(df) :
          df[i].date.t = "num" /\ 1900 <= df[i].date.v /\ df[i].date.v <= 2100

\* the result of a forecast that succeeded
Forecast == fc_result[1].forecast[1]
Succeeded == fc_result # None /\ fc_result[1].success

\* C24: when the dates of the history are four-digit years in [1900, 2100]
\* the forecast periods are labelled with the years that follow the last
\* year of the history (2019, 2020, 2021 gives 2022, 2023, 2024)
C24_PeriodsLabelledWithNextYears ==
    Succeeded /\ DatesAreYears(fc_df) =>
        \A i \in 1..Len(Forecast.predictions) :
            Forecast.predictions[i].period
                = NatText(fc_df[Len(fc_df)].date.v + i)

\* the values of the history's valid rows, in thousandths
HistoryValues(df) == [i \in 1..Len(CleanRows(df)) |-> CleanRows(df)[i].y * 1000]

\* the mean of the last three values of h
TrailingMean(h) == (h[Len(h) - 2] + h[Len(h) - 1] + h[Len(h)]) \div 3

\* h with k recursive moving-average predictions (window 3) appended
RECURSIVE MovingAverage(_, _)
MovingAverage(h, k) ==
    IF k = 0 THEN h ELSE MovingAverage(Append(h, TrailingMean(h)), k - 1)

\* a and b differ by at most one hundredth
Close(a, b) == a - b <= 10 /\ b - a <= 10

\* C25: the forecast is a recursive moving average of window 3: each
\* prediction is the mean of the last three values of the history with the
\* earlier predictions appended ([10, 12, 14] gives 12.0 and then 12.67)
C25_RecursiveMovingAverage ==
    Succeeded =>
        \A i \in 1..Len(Forecast.predictions) :
            Close(Forecast.predictions[i].prediction,
                  MovingAverage(HistoryValues(fc_df), i)[Len(CleanRows(fc_df)) + i])

\* a prediction record whose bounds enclose its point prediction
Enclosed(rec) ==
    /\ rec.period # ""
    /\ rec.confidence_low <= rec.prediction
    /\ rec.prediction <= rec.confidence_high

\* C26: every successful forecast returns exactly the configured number of
\* periods of prediction records, each with a period label, a point
\* prediction, a lower and an upper bound, lower <= point <= upper
C26_ConfiguredNumberOfEnclosedPredictions ==
    Succeeded =>
        /\ Len(Forecast.predictions) = fc_periods
        /\ \A i \in 1..Len(Forecast.predictions) : Enclosed(Forecast.predictions[i])

(***************************************************************************)
(* Claims about the table lookup (SpecRetrieval)                           *)
(***************************************************************************)
\* where the catalog holds the table
LoadPosition(order, table_name) == CHOOSE i \in DOMAIN order : order[i] = table_name

\* the tables of the catalog the question gives a score above zero
Scoring(order, query) ==
    {i \in DOMAIN order :
        RelevanceScore(Catalog[order[i]], Words(Lower(query))) > 0}

\* C27: find_relevant_tables returns at most top_k tables, each with a score
\* above zero, in non-increasing score order, tables of equal score in the
\* catalog's order; it returns the empty list when the catalog is empty or
\* no table scores above zero (and as many tables as score, up to top_k)
C27_RankedPositiveStable ==
    rt_result # None =>
        /\ Len(rt_result[1]) <= rt_top_k
        /\ \A i \in 1..Len(rt_result[1]) :
              /\ rt_result[1][i].relevance_score > 0
              /\ \E p \in DOMAIN rt_order : rt_order[p] = rt_result[1][i].table_name
              /\ rt_result[1][i].relevance_score
                     = RelevanceScore(Catalog[rt_result[1][i].table_name],
                                      Words(Lower(rt_query)))
        /\ \A i \in 1..(Len(rt_result[1]) - 1) :
              \/ rt_result[1][i].relevance_score > rt_result[1][i + 1].relevance_score
              \/ /\ rt_result[1][i].relevance_score = rt_result[1][i + 1].relevance_score
                 /\ LoadPosition(rt_order, rt_result[1][i].table_name)
                        < LoadPosition(rt_order, rt_result[1][i + 1].table_name)
        /\ (rt_order = <<>> \/ Scoring(rt_order, rt_query) = {}) => rt_result[1] = <<>>
        /\ Len(rt_result[1]) < rt_top_k
               => Len(rt_result[1]) = Cardinality(Scoring(rt_order, rt_query))

\* the lookup has returned two tables of equal score
C27_Witness ==
    /\ rt_result # None
    /\ Len(rt_result[1]) >= 2
    /\ rt_result[1][1].relevance_score = rt_result[1][2].relevance_score

(***************************************************************************)
(* Claims about the error handler (SpecErrorHandler)                       *)
(***************************************************************************)
\* the error handler has run
ErrorHandled == trace # <<>> /\ trace[1].node = "error_handler"

\* C28: for every context, with or without an error text, a question or a
\* selected table, error_handler_node raises nothing, sets next_node to end
\* (the end step runs next) and sets final_answer to a non-empty message that
\* holds the error text, the question and the selected table, the text None
\* standing for an error or a table that is not there
C28_ErrorHandlerAlwaysAnswers ==
    ErrorHandled =>
        /\ pc \in {"end", "END"}
        /\ state.next_node = Some("end")
        /\ state.final_answer # None
        /\ state.final_answer[1] # ""
        /\ StrContains(state.final_answer[1],
                       IF state.error = None THEN "None" ELSE state.error[1])
        /\ StrContains(state.final_answer[1], "**Query:** " \o Join(state.user_input) \o "\n")
        /\ StrContains(state.final_answer[1],
                       IF state.selected_table = None THEN "None"
                       ELSE state.selected_table[1])

\* the handler has run on a context without error text, question and table
C28_Witness ==
    /\ ErrorHandled
    /\ state.error = None
    /\ state.user_input = <<>>
    /\ state.selected_table = None

(***************************************************************************)
(* Claims about the statements handed to the database                      *)
(***************************************************************************)
\* the table selected in this run declares an access column and the caller
\* gave a region
RegionRestricted ==
    /\ state.selected_table # None
    /\ state.selected_table[1] \in Tables
    /\ TruthyChars(Catalog[state.selected_table[1]].access_column)
    /\ TruthyChars(state.region)

\* the predicate that restricts the rows to the caller's region
CallerPredicate ==
    RegionPredicate(Catalog[state.selected_table[1]].access_column[1], state.region[1])

\* the statements handed to SQLExecutor.execute on the query path
QueryStatements == {events[k].arg : k \in {j \in DOMAIN events : events[j].kind = "execute"}}

\* the access column comes after a where in the statement
ColumnAfterWhere(sql_in) ==
    RegexThen(Lower(sql_in), S_where,
              Lower(Catalog[state.selected_table[1]].access_column[1]))

\* C29: when the selected table declares an access column and the caller
\* gave a region, every statement handed to the database on the query path
\* holds the predicate <access_column> LIKE '<region>%' (in any letter case)
C29_ExecutedStatementIsRegionRestricted ==
    RegionRestricted =>
        \A sql_in \in QueryStatements :
            Contains(Lower(sql_in), Lower(CallerPredicate))

\* what holds: the predicate is there unless the generated statement names
\* the access column after a where
C29_RestrictedUnlessColumnAfterWhere ==
    RegionRestricted =>
        \A sql_in \in QueryStatements :
            \/ Contains(sql_in, CallerPredicate)
            \/ ColumnAfterWhere(sql_in)

\* the statements handed to SQLExecutor.execute, on the query path and by
\* the forecast agents
ExecutedStatements ==
    {events[k].arg :
        k \in {j \in DOMAIN events : events[j].kind \in {"execute", "forecast_execute"}}}

\* C30: every statement handed to the database in a run, by the SQL
\* executor after region injection and limit appending or by a forecast
\* agent, is one that validate_sql accepts
C30_ExecutedStatementsAreValid ==
    \A sql_in \in ExecutedStatements : validate_sql(sql_in).is_valid

\* what holds: a statement is handed over unaccepted only when the caller's
\* region is part of it
C30_ValidUnlessRegionInside ==
    \A sql_in \in ExecutedStatements :
        \/ TruthyChars(state.region) /\ Contains(sql_in, state.region[1])
        \/ validate_sql(sql_in).is_valid

(***************************************************************************)
(* Claims about the SQL path of a run (Spec)                               *)
(***************************************************************************)
\* step i of the run is the SQL agent giving up because no statement could
\* be generated or because validate_sql rejected it
NoStatement(i) ==
    /\ trace[i].node = "sql_agent"
    /\ trace[i].failed
    /\ \/ StrContains(trace[i].error[1], "SQL generation failed: ")
       \/ StrContains(trace[i].error[1], "SQL validation failed: ")

\* C31: in a run started from a fresh context in which SQL generation fails
\* or validate_sql rejects the generated statement, SQLExecutor.execute is
\* never called, and the step after the SQL agent is sql_executor
C31_NoExecutionWithoutStatement ==
    \A i \in DOMAIN trace :
        fresh /\ NoStatement(i) =>
            /\ \A k \in DOMAIN events : events[k].kind # "execute"
            /\ pc # "raised"
            /\ IF i = Len(trace) THEN pc = "sql_executor"
               ELSE trace[i + 1].node = "sql_executor" /\ trace[i + 1].failed

\* a fresh run in which validate_sql rejected the statement and the
\* sql_executor step has run
C31_Witness ==
    /\ fresh
    /\ \E i \in 1..(Len(trace) - 1) :
          /\ NoStatement(i)
          /\ StrContains(trace[i].error[1], "SQL validation failed: ")
          /\ trace[i + 1].node = "sql_executor"

(***************************************************************************)
(* Claims about where inject_region_filter puts the restriction            *)
(* (SpecInjector)                                                          *)
(***************************************************************************)
\* the keyword p stands in s at position i as a word of its own
TokenAt(s, p, i) ==
    /\ MatchAt(Lower(s), p, i)
    /\ (i = 1 \/ ~IsWordChar(s[i - 1]))
    /\ (i + Len(p) > Len(s) \/ ~IsWordChar(s[i + Len(p)]))

\* the position of the first of the keywords ps in s, 0 when s holds none
FirstToken(s, ps) ==
    IF \E i \in 1..Len(s) : \E p \in ps : TokenAt(s, p, i)
    THEN CHOOSE i \in 1..Len(s) :
             /\ \E p \in ps : TokenAt(s, p, i)
             /\ \A j \in 1..(i - 1) : \A p \in ps : ~TokenAt(s, p, j)
    ELSE 0

\* s with the n characters from position i on replaced by mid
Spliced(s, i, n, mid) == SubSeq(s, 1, i - 1) \o mid \o SubSeq(s, i + n, Len(s))

\* the statement out is sql_in with the restriction pred put where the rule
\* says: right after the WHERE keyword and joined with AND, else in a new
\* WHERE clause before the first GROUP BY, ORDER BY or LIMIT, else at the end
PlacedByRule(sql_in, out, pred) ==
    IF FirstToken(sql_in, {S_where}) # 0
    THEN out = Spliced(sql_in, FirstToken(sql_in, {S_where}), Len(S_where),
                       <<"W","H","E","R","E"," ">> \o pred \o <<" ","A","N","D">>)
    ELSE IF FirstToken(sql_in, {S_group_by, S_order_by, S_limit}) # 0
    THEN out = Spliced(sql_in, FirstToken(sql_in, {S_group_by, S_order_by, S_limit}), 0,
                       <<" ","W","H","E","R","E"," ">> \o pred \o <<" ">>)
    ELSE out = RStripSemi(sql_in) \o <<" ","W","H","E","R","E"," ">> \o pred \o <<";">>

\* keyword position a comes before keyword position b where s has both
InOrder(a, b) == a = 0 \/ b = 0 \/ a < b

\* s is one SELECT statement that validate_sql accepts, with its clauses in
\* the order FROM, WHERE, GROUP BY, ORDER BY, LIMIT
WellFormedSelect(s) ==
    /\ validate_sql(s).is_valid
    /\ FirstToken(s, {S_from}) # 0
    /\ InOrder(FirstToken(s, {S_from}), FirstToken(s, {S_where}))
    /\ InOrder(FirstToken(s, {S_where}), FirstToken(s, {S_group_by, S_order_by, S_limit}))
    /\ InOrder(FirstToken(s, {S_group_by}), FirstToken(s, {S_order_by}))
    /\ InOrder(FirstToken(s, {S_order_by}), FirstToken(s, {S_limit}))

\* a restriction was injected into a well-formed statement
RestrictionInjected ==
    /\ inj_result # None
    /\ inj_column # <<>>
    /\ inj_region # <<>>
    /\ inj_result[1].once # inj_sql
    /\ WellFormedSelect(inj_sql)

\* C32: when a region restriction is injected into a validated statement,
\* the predicate stands right after the WHERE keyword, joined with AND, if
\* the statement has a WHERE clause; otherwise a new WHERE clause stands
\* before the first GROUP BY, ORDER BY or LIMIT token, or at the end when
\* there is none; and the result is a well-formed single SELECT
C32_RestrictionPlacedWellFormed ==
    RestrictionInjected =>
        /\ PlacedByRule(inj_sql, inj_result[1].once, RegionPredicate(inj_column, inj_region))
        /\ WellFormedSelect(inj_result[1].once)

\* what holds: the claim for the statements in which where, group by, order
\* by and limit occur as keywords only
C32_HoldsForKeywordsOnly ==
    RestrictionInjected /\ inj_sql \notin InjIdentifiers =>
        /\ PlacedByRule(inj_sql, inj_result[1].once, RegionPredicate(inj_column, inj_region))
        /\ WellFormedSelect(inj_result[1].once)

(***************************************************************************)
(* Claims about the prompt and the post-processing of the SQL agent        *)
(* (SpecInjector)                                                          *)
(***************************************************************************)
\* the prompt tells the model to add the restriction
PromptInstructs ==
    Contains(inj_result[1].rule,
             <<"Y","o","u"," ","M","U","S","T"," ","a","d","d",":"," ","W","H","E","R","E"," ">> \o RegionPredicate(inj_column, inj_region))

\* the post-processing put a restriction into the statement
Injected == inj_result[1].once # inj_sql

\* C33: the prompt tells the model to add the restriction only for a table
\* with a non-empty access column and forbids it in so many words otherwise,
\* and the post-processing injects a restriction exactly when the prompt told
\* the model to add one (a statement that already carries the restriction
\* needs none)
C33_PromptAndInjectionAgree ==
    inj_result # None =>
        /\ PromptInstructs => inj_column # <<>>
        /\ ~PromptInstructs => inj_result[1].rule = NoRegionRule
        /\ Injected => PromptInstructs
        /\ PromptInstructs =>
              \/ Injected
              \/ PredicateCount(inj_sql, inj_column, inj_region) > 0

\* what holds: the prompt's half of the claim
C33_PromptRule ==
    inj_result # None =>
        /\ PromptInstructs <=> (is_valid_access_col(inj_column) /\ inj_region # <<>>)
        /\ ~PromptInstructs => inj_result[1].rule = NoRegionRule

\* what holds: the two agree for an access column that is not the text None
\* and a statement that does not name the column after a where
C33_AgreeOtherwise ==
    /\ inj_result # None
    /\ is_valid_access_col(inj_column) \/ inj_column = <<>>
    /\ ~RegexThen(Lower(inj_sql), S_where, Lower(inj_column))
    => (Injected <=> PromptInstructs)

(***************************************************************************)
(* Claims about table resolution in the enhanced workflow (Spec)           *)
(***************************************************************************)
\* the enhanced retriever was the last step to run, or to raise, and the
\* ranker gave it at least one candidate
RankerFoundCandidates ==
    /\ wf = "enhanced"
    /\ trace # <<>>
    /\ trace[Len(trace)].node = "metadata_retriever"
    /\ state.intent # Some("clarify")
    /\ find_relevant_tables(state.user_input, 5, table_order) # <<>>

\* the names of the candidates in relevant_tables
CandidateNames == {state.relevant_tables[i].table_name : i \in DOMAIN state.relevant_tables}

\* selected_table names a candidate and table_metadata is that candidate's
ResolvedToCandidate ==
    /\ state.selected_table # None
    /\ state.selected_table[1] \in CandidateNames
    /\ state.table_metadata = state.selected_table

\* the selector's confidence was not above 0.3: none is recorded
LowConfidence == state.selection_confidence = None

\* C34: in the enhanced workflow, whenever the ranker returns a candidate,
\* the retriever ends with selected_table naming a member of relevant_tables
\* and table_metadata holding its metadata, and goes on to the planner
\* without asking the user; when the selector's confidence is not above 0.3
\* the table is the first of the candidates with the highest relevance
C34_ResolvedWithoutAsking ==
    RankerFoundCandidates =>
        /\ pc = "planner"
        /\ ~state.needs_clarification
        /\ ResolvedToCandidate
        /\ LowConfidence =>
               state.selected_table[1] = MaxByScore(state.relevant_tables).table_name

\* what holds: when the retriever returns, the table is resolved as the
\* claim says; the planner is next unless the caller's context came with
\* needs_clarification set, which the retriever leaves as it is
C34_ResolvedUnlessRaised ==
    RankerFoundCandidates /\ pc # "raised" =>
        /\ pc = (IF state.needs_clarification THEN "clarify_agent" ELSE "planner")
        /\ fresh => ~state.needs_clarification
        /\ ResolvedToCandidate
        /\ LowConfidence =>
               state.selected_table[1] = MaxByScore(state.relevant_tables).table_name

(***************************************************************************)
(* Claims about the relevance score (SpecRetrieval)                        *)
(***************************************************************************)
\* the points of one column name as the rule gives them, in half points: 2
\* if a query term is part of the name, else 1 if a query term of more than
\* three letters begins with the three letters the name begins with
RuleColumnPoints(col_lower, query_terms) ==
    IF \E term \in query_terms : Contains(col_lower, term) THEN 4
    ELSE IF \E term \in query_terms :
                Len(term) > 3 /\ StartsWith(col_lower, SubSeq(term, 1, 3))
    THEN 2 ELSE 0

\* 0.5 for an example value that holds a query term
RuleExamplePoints(value_lower, query_terms) ==
    IF \E term \in query_terms : Contains(value_lower, term) THEN 1 ELSE 0

\* the score of a table by the rule, in half points
RuleScore(meta, query_terms) ==
    (IF \E term \in query_terms : Contains(Lower(meta.description), term)
     THEN 6 ELSE 0)
    + SumOver([c \in DOMAIN meta.columns |->
                  RuleColumnPoints(Lower(meta.columns[c]), query_terms)],
              DOMAIN meta.columns)
    + SumOver([e \in DOMAIN meta.example_values |->
                  RuleExamplePoints(Lower(meta.example_values[e]), query_terms)],
              DOMAIN meta.example_values)

\* C35: the relevance score of a returned table is 3 if a query term occurs
\* in its description, plus for each column name 2 if a query term is part
\* of it or else 1 if a query term longer than three letters shares its
\* first three letters with it, plus 0.5 for each example value that holds
\* a query term
C35_ScoreByRule ==
    rt_result # None =>
        \A i \in 1..Len(rt_result[1]) :
            rt_result[1][i].relevance_score
                = RuleScore(Catalog[rt_result[1][i].table_name], Words(Lower(rt_query)))

\* no column name and no example value of the table matches two query terms
OneTermEach(meta, query_terms) ==
    /\ \A c \in DOMAIN meta.columns :
          ColumnScore(Lower(meta.columns[c]), query_terms) \in {0, 2, 4}
    /\ \A e \in DOMAIN meta.example_values :
          ExampleScore(Lower(meta.example_values[e]), query_terms) \in {0, 1}

\* what holds: the rule gives the score of every table whose column names
\* and example values each match at most one query term
C35_ScoreByRuleOneTermEach ==
    rt_result # None =>
        \A i \in 1..Len(rt_result[1]) :
            OneTermEach(Catalog[rt_result[1][i].table_name], Words(Lower(rt_query)))
                => rt_result[1][i].relevance_score
                       = RuleScore(Catalog[rt_result[1][i].table_name], Words(Lower(rt_query)))

(***************************************************************************)
(* Claims about the catalog cache (SpecLoader)                             *)
(***************************************************************************)
\* what one load of the store on its own produces
SingleLoad ==
    IF ~md_store.exists THEN {}
    ELSE {md_store.files[i].table : i \in {j \in DOMAIN md_store.files : md_store.files[j].ok}}

\* the calls that have returned
Returned == {p \in Threads : md_calls[p].pc = "done"}

\* the cache, once set, and every returned catalog hold all a single load holds
NeverPartial ==
    /\ md_cache # None => md_cache[1] = SingleLoad
    /\ \A p \in Returned : md_calls[p].result = Some(SingleLoad)

\* the returned calls made without force_reload after a load had completed
LaterCalls ==
    {p \in Returned : md_calls[p].after_load /\ ~md_calls[p].force_reload}

\* C36: under every interleaving of the calls of threads that share the
\* manager, every call returns a fully populated catalog and the cache never
\* holds a partial one, racing loads leave the cache equal to what a single
\* load produces, and a call made without force_reload after a load has
\* completed returns the catalog without reading the store again
C36_CachedOnceNeverPartial ==
    /\ NeverPartial
    /\ \A p \in LaterCalls : ~md_calls[p].read_store

\* what holds: the catalog is never partial, and when the directory holds a
\* JSON file a later call does not read the store
C36_CachedWhenStoreHasFiles ==
    /\ NeverPartial
    /\ md_store.files # <<>> =>
          \A p \in LaterCalls : ~md_calls[p].read_store /\ md_calls[p].result = md_cache

(***************************************************************************)
(* Claims about what the router writes (Spec)                              *)
(***************************************************************************)
\* the router has just run, as the first step of a run from a fresh context
RouterRanFresh == fresh /\ Len(trace) = 1 /\ trace[1].node = "router"

\* C37 as stated: router_node leaves every field of the context other than
\* intent as it was (here: as main.py built it)
C37_RouterWritesIntentOnly ==
    RouterRanFresh =>
        state = [FreshState(state.user_input, state.region) EXCEPT !.intent = state.intent]

\* C37: router_node writes intent and next_node, which it sets to
\* metadata_retriever, and leaves every other field of the context as it was,
\* makes no external request and raises nothing
C37_RouterWritesIntentAndNextNode ==
    [][pc = "router" =>
          /\ state' = [state EXCEPT !.intent = state'.intent,
                                    !.next_node = Some("metadata_retriever")]
          /\ state'.intent \in {Some("forecast"), Some("sql"), Some("clarify")}
          /\ events' = events
          /\ pc' # "raised"]_vars

\* the router has run on a context that came with a pending question and the
\* user's answer, and both are still there
C37_Witness ==
    /\ Len(trace) = 1
    /\ trace[1].node = "router"
    /\ state.needs_clarification
    /\ state.clarification_question # None
    /\ state.clarification_response # None
    /\ state.relevant_tables # <<>>

(***************************************************************************)
(* Claims about the choice of the date and the value column (SpecDetect)   *)
(***************************************************************************)
\* the detection has run on the columns
Detected == dt_result # None

\* the column detect_time_series_columns chose holds a keyword in its name
DateByKeyword ==
    /\ dt_result[1].enhanced.date_column # 0
    /\ KeywordScore(dt_columns[dt_result[1].enhanced.date_column].name, date_keywords) > 0

ValueByKeyword ==
    /\ dt_result[1].enhanced.value_column # 0
    /\ KeywordScore(dt_columns[dt_result[1].enhanced.value_column].name, value_keywords) > 0

Undetermined ==
    \/ dt_result[1].enhanced.date_column = 0
    \/ dt_result[1].enhanced.value_column = 0

\* C38: detect_time_series_columns reports high exactly when both columns
\* were chosen by a keyword in the name, medium when at least one was chosen
\* by type or position only, and low exactly when a column is undetermined
C38_ConfidenceReflectsKeywordMatch ==
    Detected =>
        /\ dt_result[1].enhanced.confidence = "high" <=> (DateByKeyword /\ ValueByKeyword)
        /\ (~Undetermined /\ ~(DateByKeyword /\ ValueByKeyword))
               => dt_result[1].enhanced.confidence = "medium"
        /\ dt_result[1].enhanced.confidence = "low" <=> Undetermined

\* a column has a type of the date or the value types
TypedColumn(c) == Lower(c.type) \in DATE_TYPES \cup VALUE_TYPES

\* a column holds a date keyword and a value keyword in its name
BothKinds(c) ==
    /\ KeywordScore(c.name, date_keywords) > 0
    /\ KeywordScore(c.name, value_keywords) > 0

\* what the code does: the statement of C38 holds for a table none of whose
\* columns has one of the types or holds keywords of both kinds, and low is
\* reported exactly for a table without columns
C38_HoldsWithoutTypesAndOverlap ==
    Detected =>
        /\ (\A i \in DOMAIN dt_columns : ~TypedColumn(dt_columns[i]) /\ ~BothKinds(dt_columns[i]))
               => C38_ConfidenceReflectsKeywordMatch
        /\ dt_result[1].enhanced.confidence = "low" <=> dt_columns = <<>>
        /\ dt_result[1].enhanced.confidence = "high"
               <=> (DateCandidates(dt_columns) # {} /\ ValueCandidates(dt_columns) # {})

\* the cases of C38 happen: all three tags, a column chosen by type only and
\* a value column chosen by position after the two were the same
C38_TypeOnlyHigh ==
    /\ Detected
    /\ dt_result[1].enhanced.confidence = "high"
    /\ ~DateByKeyword
    /\ Lower(dt_columns[dt_result[1].enhanced.date_column].type) \in DATE_TYPES

C38_PositionHigh ==
    /\ Detected
    /\ dt_result[1].enhanced.confidence = "high"
    /\ ~ValueByKeyword
    /\ ~TypedColumn(dt_columns[dt_result[1].enhanced.value_column])

C38_Medium == Detected /\ dt_result[1].enhanced.confidence = "medium"

C38_Low == Detected /\ dt_result[1].enhanced.confidence = "low"

\* C39: with at least two columns the date column and the value column are
\* two different columns on both forecast paths
C39_DateAndValueDiffer ==
    (Detected /\ Len(dt_columns) >= 2) =>
        /\ dt_result[1].enhanced.date_column # dt_result[1].enhanced.value_column
        /\ dt_result[1].basic[1].date_column # dt_result[1].basic[1].value_column

\* what the code does: detect_time_series_columns keeps the two apart, and
\* the basic node does whenever the date column it chose holds no value
\* keyword in its name
C39_EnhancedDiffers ==
    (Detected /\ Len(dt_columns) >= 2) =>
        /\ dt_result[1].enhanced.date_column # 0
        /\ dt_result[1].enhanced.value_column # 0
        /\ dt_result[1].enhanced.date_column # dt_result[1].enhanced.value_column

C39_BasicDiffersUnlessDateHoldsValueKeyword ==
    (/\ Detected
     /\ Len(dt_columns) >= 2
     /\ KeywordScore(dt_columns[dt_result[1].basic[1].date_column].name,
                     basic_value_keywords) = 0)
        => dt_result[1].basic[1].date_column # dt_result[1].basic[1].value_column

\* the correction of detect_time_series_columns is reached: the best value
\* candidate was the date column
C39_CorrectionReached ==
    /\ Detected
    /\ Len(dt_columns) >= 2
    /\ DetectValueFirst(dt_columns) = DetectDate(dt_columns)

(***************************************************************************)
(* Claims about an answer the clarify step cannot use (Spec)               *)
(***************************************************************************)
\* the clarify step is about to run on a context whose answer names no
\* candidate
AnswerNamesNoCandidate ==
    /\ pc = "clarify_agent"
    /\ state.clarification_response # None
    /\ AnswerNumber(state) \notin 1..Len(state.relevant_tables)

\* a disambiguation question is pending
QuestionPending ==
    /\ state.needs_clarification
    /\ TruthyText(state.clarification_question)

\* the answer is made of digits int() does not read
AnswerOfOtherDigits ==
    /\ state.clarification_response # None
    /\ IsDigits(Strip(state.clarification_response[1]))
    /\ ~IsDecimal(Strip(state.clarification_response[1]))

\* C40: a clarification_response that is not a decimal number within
\* 1..len(relevant_tables) never changes selected_table or table_metadata;
\* when a question is pending the clarify step emits that same question
\* again as the final answer and the run ends without running the planner
C40_UnusableAnswerAsksAgain ==
    [][AnswerNamesNoCandidate =>
          /\ state'.selected_table = state.selected_table
          /\ state'.table_metadata = state.table_metadata
          /\ QuestionPending =>
                /\ state'.final_answer = state.clarification_question
                /\ pc' = "end"]_vars

\* what the code does: the two fields are kept, and the question is asked
\* again unless the answer is made of digits that are no decimal digits, on
\* which the step raises
C40_AsksAgainUnlessOtherDigits ==
    [][AnswerNamesNoCandidate =>
          /\ state'.selected_table = state.selected_table
          /\ state'.table_metadata = state.table_metadata
          /\ state'.relevant_tables = state.relevant_tables
          /\ (QuestionPending /\ ~AnswerOfOtherDigits) =>
                /\ state'.final_answer = state.clarification_question
                /\ state'.clarification_question = state.clarification_question
                /\ state'.needs_clarification
                /\ pc' = "end"
          /\ AnswerOfOtherDigits => pc' = "raised"]_vars

\* the clarify step has asked its question again on an answer it could not
\* use, and the run is about to end
C40_AskedAgain ==
    /\ trace # <<>>
    /\ trace[Len(trace)].node = "clarify_agent"
    /\ pc = "end"
    /\ state.clarification_response # None
    /\ QuestionPending
    /\ state.final_answer = state.clarification_question

\* the clarify step has raised on an answer while a question was pending
C40_RaisedOnAnswer ==
    /\ trace # <<>>
    /\ trace[Len(trace)].node = "clarify_agent"
    /\ pc = "raised"
    /\ QuestionPending
    /\ AnswerOfOtherDigits

====
